---------------------------- MODULE Spec2Model ----------------------------
(***************************************************************************)
(* Hermit Crab: a fleet of lease-limited nodes that clone themselves onto  *)
(* a fresh node before they expire.  The model covers the shared registry  *)
(* (GitHubSync, src/modules/github_sync.py), the local registry cache      *)
(* (Scanner, src/modules/scanner.py), the lifecycle clock (Monitor,        *)
(* src/modules/monitor.py), the notifier's availability switch              *)
(* (src/modules/notification.py) and the controller's migrate, feedback    *)
(* and daemon workflows (src/agent.py).                                    *)
(*                                                                         *)
(* Every remote registry round trip (one pull, one push) is one atomic     *)
(* step; the code between two round trips belongs to the step that         *)
(* follows the earlier one, so agents interleave exactly at the network    *)
(* calls, as separate processes on separate machines do.                   *)
(***************************************************************************)
EXTENDS Integers, Sequences, FiniteSets, TLC

(***************************************************************************)
(* Bounds of the model.                                                    *)
(***************************************************************************)
\* commands one node may start in a run of the model
MaxRuns == 1
\* remote calls (pull or push) that may fail in a run of the model
MaxFaults == 1
\* daemon loop iterations explored
MaxIterations == 2

(***************************************************************************)
(* Values.                                                                 *)
(***************************************************************************)
\* Python's None: an absent dict key read with .get(), an omitted argument
None == "None"
\* a timestamp written by format_datetime()/datetime.now()
Stamp == "ts"

\* the fleet: a and b are running nodes, c is a spare
Nodes == {"a", "b", "c"}
Sources == {"a", "b"}
Spares == {"c"}

Statuses == {"idle", "transferring", "active", "dead"}

\* configuration defaults
total_days_default == 15
migrate_threshold_days == 5
minimum_gain_days == 1

VARIABLES
    remote,      \* servers list of the remote nodes.json
    local,       \* servers list of each node's local cache
    gh,          \* GitHubSync.is_available() of each node's agent
    now,         \* [day, tod]: current date and whether midnight has passed
    lifecycle,   \* each node's lifecycle.json, or None
    flag,        \* each node's migration_flag.json exists
    notifier,    \* each agent's ResendNotifier attributes
    pc,          \* each agent's position
    frame,       \* arguments and continuation of the GitHubSync call in progress
    nodes_data,  \* registry dict held by the call in progress
    rv,          \* return value of the last GitHubSync call
    mig,         \* locals of the running cmd_migrate
    result,      \* return value of the last command
    runs,        \* commands started by each node
    faults,      \* failed remote calls so far
    dpc,         \* each daemon's position
    iter,        \* daemon iterations started
    cf,          \* CloudFlareAPI.is_available() of each node's agent
    effects,     \* what the running cmd_migrate has done and logged so far
    handlers,    \* file handlers attached to each agent's logger by cmd_migrate
    zone         \* A records of the CloudFlare zone

regVars == <<remote, local>>
envVars == <<gh, now, cf, zone>>
nodeVars == <<lifecycle, flag, notifier>>
callVars == <<frame, nodes_data, rv>>
cmdVars == <<mig, result, runs>>
logVars == <<effects, handlers>>
daemonVars == <<dpc, iter>>
vars == <<remote, local, gh, now, lifecycle, flag, notifier, pc, frame,
          nodes_data, rv, mig, result, runs, faults, dpc, iter, cf, effects,
          handlers, zone>>

(***************************************************************************)
(* utils.py                                                                *)
(***************************************************************************)
\* timedelta.days of (added + total_days) - now: whole days, floored;
\* dates are day numbers, now.tod = 1 when the time of day is past 00:00
calculate_days_remaining(added_date, total_days) ==
    (added_date + total_days) - now.day - now.tod

(***************************************************************************)
(* Server records.                                                         *)
(***************************************************************************)
\* the record Scanner.add_server writes, plus the optional keys that
\* GitHubSync reads (id, domain) or writes (lock_holder, lock_time)
ServerRecord(ip, id, added_date, status) ==
    [ip |-> ip, id |-> id, domain |-> None, added_date |-> added_date,
     total_days |-> total_days_default, status |-> status,
     last_heartbeat |-> None, lock_holder |-> None, lock_time |-> None]

Min(S) == CHOOSE x \in S : \A y \in S : x <= y

\* for server in servers: if server.get('id') == server_id or
\* server.get('domain') == server_id: ... break
FindServer(servers, server_id) ==
    LET hits == {i \in DOMAIN servers :
                    servers[i].id = server_id \/ servers[i].domain = server_id}
    IN IF hits = {} THEN 0 ELSE Min(hits)

\* for server in servers: if server.get('ip') == ip: ... break
FindByIp(servers, ip) ==
    LET hits == {i \in DOMAIN servers : servers[i].ip = ip}
    IN IF hits = {} THEN 0 ELSE Min(hits)

\* [s for s in servers if s.get('ip') != current_ip]
WithoutIp(servers, ip) == SelectSeq(servers, LAMBDA s : s.ip # ip)


(***************************************************************************)
(* scanner.py                                                              *)
(***************************************************************************)
remaining_days(server) ==
    calculate_days_remaining(server.added_date, server.total_days)

\* the filter that keeps the node's own record
get_available_servers_with_current(servers, current_ip) ==
    SelectSeq(servers, LAMBDA s : s.status = "idle" /\ remaining_days(s) >= 0)

\* Scanner.get_available_servers with the default flags
get_available_servers(servers, current_ip) ==
    SelectSeq(servers, LAMBDA s : /\ s.ip # current_ip
                                  /\ s.status = "idle"
                                  /\ remaining_days(s) >= 0)

\* max(candidates, key=remaining_days): the first of the longest-lived
MaxRemaining(candidates) ==
    LET best == CHOOSE d \in {remaining_days(candidates[i]) : i \in DOMAIN candidates} :
                    \A j \in DOMAIN candidates : remaining_days(candidates[j]) <= d
    IN candidates[Min({i \in DOMAIN candidates : remaining_days(candidates[i]) = best})]

\* the selection without its second tier
select_target_server_high_only(servers, current_ip, current_remaining_days) ==
    LET available == get_available_servers(servers, current_ip)
        candidates_high == SelectSeq(available,
                               LAMBDA s : remaining_days(s) > migrate_threshold_days)
    IN IF Len(candidates_high) > 0 THEN MaxRemaining(candidates_high).ip ELSE None

\* Scanner.select_target_server: the chosen server's ip, or None
select_target_server(servers, current_ip, current_remaining_days) ==
    LET available == get_available_servers(servers, current_ip)
        candidates_high == SelectSeq(available,
                               LAMBDA s : remaining_days(s) > migrate_threshold_days)
        candidates_low == SelectSeq(available,
                               LAMBDA s : remaining_days(s) >
                                          current_remaining_days + minimum_gain_days)
    IN IF Len(available) = 0 THEN None
       ELSE IF Len(candidates_high) > 0 THEN MaxRemaining(candidates_high).ip
       ELSE IF Len(candidates_low) > 0 THEN MaxRemaining(candidates_low).ip
       ELSE None

\* Scanner.select_longest_remaining_server: the chosen server's ip, or None
select_longest_remaining_server(servers, current_ip) ==
    LET available == get_available_servers(servers, current_ip)
    IN IF Len(available) = 0 THEN None ELSE MaxRemaining(available).ip

\* the update that is not written to nodes.json
scanner_update_server_status_unsaved(servers, ip, status) == servers

\* Scanner.update_server_status without extra fields: the saved servers list
scanner_update_server_status(servers, ip, status) ==
    LET i == FindByIp(servers, ip)
    IN IF i = 0 THEN servers
       ELSE [servers EXCEPT ![i].status = status, ![i].last_heartbeat = Stamp]

\* the add that does not look for the ip first
add_server_unchecked(servers, ip, added_date) ==
    Append(servers, ServerRecord(ip, None, added_date, "idle"))

\* Scanner.add_server with the default status: the servers list afterwards
\* (unchanged when the ip is present, and the call then returns False)
add_server(servers, ip, added_date) ==
    IF FindByIp(servers, ip) # 0 THEN servers
    ELSE Append(servers, ServerRecord(ip, None, added_date, "idle"))

\* Scanner.remove_server: the servers list afterwards (unchanged when no
\* record has the ip, and the call then returns False)
remove_server(servers, ip) == WithoutIp(servers, ip)

(***************************************************************************)
(* monitor.py                                                              *)
(***************************************************************************)
\* Monitor.get_remaining_days
get_remaining_days(n) ==
    IF ~lifecycle[n].initialized \/ ~lifecycle[n].valid_date THEN -1
    ELSE calculate_days_remaining(lifecycle[n].added_date, lifecycle[n].total_days)

\* the decision without the guard on negative remaining days
should_migrate_below_threshold(n) == get_remaining_days(n) < migrate_threshold_days

\* Monitor.should_migrate
should_migrate(n) ==
    LET remaining == get_remaining_days(n)
    IN IF remaining < 0 THEN FALSE ELSE remaining < migrate_threshold_days

(***************************************************************************)
(* github_sync.py: the pure parts of the lock protocol                     *)
(***************************************************************************)
\* the lock test comparing against a status no record ever has
lock_is_held_locked(server) == server.status = "locked"

\* acquire_lock's test of the pulled record: current_status == 'transferring'
lock_is_held(server) == server.status = "transferring"

\* acquire_lock's edit of the pulled registry
with_lock(servers, i, lock_holder) ==
    [servers EXCEPT ![i].status = "transferring",
                    ![i].lock_holder = lock_holder,
                    ![i].lock_time = Stamp]

\* release_lock's edit of the pulled registry
without_lock(servers, i, new_status) ==
    [servers EXCEPT ![i].status = new_status,
                    ![i].lock_holder = None,
                    ![i].lock_time = None]

\* update_server_status's edit of the pulled registry (no extra fields passed)
with_status(servers, i, status) ==
    [servers EXCEPT ![i].status = status, ![i].last_heartbeat = Stamp]

\* the push that reports success and writes nothing
push_nodes_dropped(file, content, ok) == file

\* push_nodes: update_file replaces the whole remote file by the caller's
\* content, under the sha it has just re-read; on an error the file stays
push_nodes(file, content, ok) == IF ok THEN content ELSE file

\* a remote call either succeeds or, while the fault budget lasts, fails
Outcomes == IF faults < MaxFaults THEN {TRUE, FALSE} ELSE {TRUE}

Fault(ok) == faults' = IF ok THEN faults ELSE faults + 1

\* no GitHubSync call made yet, or its result consumed
NoFrame == [entry |-> None, server_id |-> None, arg |-> None, cont |-> "idle"]

\* the call returns r to its caller, who still knows what it called
Return(n, r) ==
    /\ rv' = [rv EXCEPT ![n] = r]
    /\ pc' = [pc EXCEPT ![n] = frame[n].cont]
    /\ frame' = frame
    /\ nodes_data' = [nodes_data EXCEPT ![n] = <<>>]

\* the caller's side of a GitHubSync call
Call(n, label, server_id, arg, cont) ==
    /\ pc' = [pc EXCEPT ![n] = label]
    /\ frame' = [frame EXCEPT ![n] = [entry |-> label, server_id |-> server_id,
                                      arg |-> arg, cont |-> cont]]
    /\ nodes_data' = [nodes_data EXCEPT ![n] = <<>>]
    /\ rv' = rv

(***************************************************************************)
(* GitHubSync.acquire_lock(server_id, lock_holder)                         *)
(***************************************************************************)
\* pull, find the server, test the lock, edit the pulled copy
acquire_lock_pull(n) ==
    /\ pc[n] = "acq_pull"
    /\ \E ok \in Outcomes :
        LET i == FindServer(remote, frame[n].server_id)
        IN /\ Fault(ok)
           /\ IF ~ok \/ i = 0 \/ lock_is_held(remote[i])
              THEN Return(n, FALSE)
              ELSE /\ nodes_data' = [nodes_data EXCEPT
                                        ![n] = with_lock(remote, i, frame[n].arg)]
                   /\ pc' = [pc EXCEPT ![n] = "acq_push"]
                   /\ UNCHANGED <<frame, rv>>
    /\ UNCHANGED <<regVars, envVars, nodeVars, cmdVars, daemonVars, logVars>>

\* push the edited copy: push_nodes replaces the whole remote file
acquire_lock_push(n) ==
    /\ pc[n] = "acq_push"
    /\ \E ok \in Outcomes :
        /\ Fault(ok)
        /\ remote' = push_nodes(remote, nodes_data[n], ok)
        /\ Return(n, ok)
    /\ UNCHANGED <<local, envVars, nodeVars, cmdVars, daemonVars, logVars>>

(***************************************************************************)
(* GitHubSync.release_lock(server_id, new_status)                          *)
(***************************************************************************)
release_lock_pull(n) ==
    /\ pc[n] = "rel_pull"
    /\ \E ok \in Outcomes :
        LET i == FindServer(remote, frame[n].server_id)
        IN /\ Fault(ok)
           /\ IF ~ok \/ i = 0
              THEN Return(n, FALSE)
              ELSE /\ nodes_data' = [nodes_data EXCEPT
                                        ![n] = without_lock(remote, i, frame[n].arg)]
                   /\ pc' = [pc EXCEPT ![n] = "rel_push"]
                   /\ UNCHANGED <<frame, rv>>
    /\ UNCHANGED <<regVars, envVars, nodeVars, cmdVars, daemonVars, logVars>>

release_lock_push(n) ==
    /\ pc[n] = "rel_push"
    /\ \E ok \in Outcomes :
        /\ Fault(ok)
        /\ remote' = push_nodes(remote, nodes_data[n], ok)
        /\ Return(n, ok)
    /\ UNCHANGED <<local, envVars, nodeVars, cmdVars, daemonVars, logVars>>

(***************************************************************************)
(* GitHubSync.update_server_status(server_id, status)                      *)
(***************************************************************************)
update_server_status_pull(n) ==
    /\ pc[n] = "upd_pull"
    /\ \E ok \in Outcomes :
        LET i == FindServer(remote, frame[n].server_id)
        IN /\ Fault(ok)
           /\ IF ~ok \/ i = 0
              THEN Return(n, FALSE)
              ELSE /\ nodes_data' = [nodes_data EXCEPT
                                        ![n] = with_status(remote, i, frame[n].arg)]
                   /\ pc' = [pc EXCEPT ![n] = "upd_push"]
                   /\ UNCHANGED <<frame, rv>>
    /\ UNCHANGED <<regVars, envVars, nodeVars, cmdVars, daemonVars, logVars>>

update_server_status_push(n) ==
    /\ pc[n] = "upd_push"
    /\ \E ok \in Outcomes :
        /\ Fault(ok)
        /\ remote' = push_nodes(remote, nodes_data[n], ok)
        /\ Return(n, ok)
    /\ UNCHANGED <<local, envVars, nodeVars, cmdVars, daemonVars, logVars>>

(***************************************************************************)
(* agent.py: cmd_migrate(target_ip, password, auto, force)                 *)
(***************************************************************************)
\* the locals of cmd_migrate that later steps read
NoMigration == [target_ip |-> None, transfer |-> "none"]

\* how the SSH password is supplied: on the command line, by the environment
\* (get_ssh_password finds one), or not at all
Passwords == {"cli", "env", "none"}

\* a command without a finally block returns r
Finish(n, r) ==
    /\ result' = [result EXCEPT ![n] = r]
    /\ pc' = [pc EXCEPT ![n] = "idle"]
    /\ mig' = [mig EXCEPT ![n] = NoMigration]

\* cmd_migrate leaves its try block with r: a return value, or "raised" when
\* an exception escapes the except block
Leave(n, r) ==
    /\ result' = [result EXCEPT ![n] = r]
    /\ pc' = [pc EXCEPT ![n] = "finally"]

\* the calls made and the error lines logged by the running cmd_migrate
Emit(n, es) == effects' = [effects EXCEPT ![n] = @ \o es]

\* self.logger.addHandler(file_handler)
addHandler(k) == k + 1

\* the removeHandler without effect
removeHandler_kept(k) == k

\* self.logger.removeHandler(file_handler); file_handler.close()
removeHandler(k) == k - 1

\* Monitor.get_status raises when the stored added_date does not parse
get_status_raises(n) == lifecycle[n].initialized /\ ~lifecycle[n].valid_date

\* the classification that tests WARNING before CRITICAL
get_status_warning_first(n) ==
    IF ~lifecycle[n].initialized THEN "NOT_INITIALIZED"
    ELSE IF get_status_raises(n) THEN "raise"
    ELSE IF get_remaining_days(n) < 0 THEN "EXPIRED"
    ELSE IF get_remaining_days(n) < 10 THEN "WARNING"
    ELSE IF should_migrate(n) THEN "CRITICAL"
    ELSE "HEALTHY"

\* Monitor.get_status: the 'status' of the summary it returns, or "raise"
get_status(n) ==
    IF ~lifecycle[n].initialized THEN "NOT_INITIALIZED"
    ELSE IF get_status_raises(n) THEN "raise"
    ELSE IF get_remaining_days(n) < 0 THEN "EXPIRED"
    ELSE IF should_migrate(n) THEN "CRITICAL"
    ELSE IF get_remaining_days(n) < 10 THEN "WARNING"
    ELSE "HEALTHY"

\* Monitor.get_remaining_days is called and its value kept by the caller
monitor_get_remaining_days(n) ==
    /\ pc[n] = "idle"
    /\ dpc[n] = "off"
    /\ frame' = [frame EXCEPT ![n] =
                    [entry |-> "get_remaining_days", server_id |-> None,
                     arg |-> get_remaining_days(n), cont |-> "idle"]]
    /\ UNCHANGED <<regVars, envVars, nodeVars, pc, nodes_data, rv, cmdVars, faults,
                   daemonVars, logVars>>

\* `hermit-crab status`: Monitor.display_status shows the classification
cmd_status(n) ==
    /\ pc[n] = "idle"
    /\ dpc[n] = "off"
    /\ runs[n] < MaxRuns
    /\ runs' = [runs EXCEPT ![n] = @ + 1]
    /\ result' = [result EXCEPT ![n] = get_status(n)]
    /\ UNCHANGED <<regVars, envVars, nodeVars, pc, callVars, mig, faults,
                   daemonVars, logVars>>

\* step 3 of cmd_migrate on the refreshed cache: the target's ip, or None
resolve_target(cache, n, target_ip, auto, force) ==
    IF target_ip = None
    THEN IF ~auto THEN None
         ELSE IF force THEN select_longest_remaining_server(cache, n)
         ELSE select_target_server(cache, n, get_remaining_days(n))
    ELSE LET available == get_available_servers(cache, n)
         IN IF \E i \in DOMAIN available : available[i].ip = target_ip
            THEN target_ip
            ELSE None

\* the selection that tells nobody when it finds no candidate
target_error_silent(target_ip, auto) ==
    IF target_ip = None
    THEN IF ~auto THEN <<"error_usage">> ELSE <<"error_no_target">>
    ELSE <<"error_not_available">>

\* what step 3 logs and sends before it returns False for want of a target
target_error(target_ip, auto) ==
    IF target_ip = None
    THEN IF ~auto THEN <<"error_usage">>
         ELSE <<"error_no_target", "notify_no_available_servers">>
    ELSE <<"error_not_available">>

\* steps 1-5 of cmd_migrate: attach the log file, load the status (it may
\* raise; an uninitialized node stops), look up the own ip, refresh the
\* cache from the remote registry, choose the target, find the password, and
\* either start acquire_lock or mark the target in the local registry
migrate_begin(n, target_ip, password, auto, force) ==
    /\ pc[n] = "idle"
    /\ handlers' = [handlers EXCEPT ![n] = addHandler(@)]
    /\ IF get_status_raises(n)
       THEN \* the except block reads current_ip, not yet bound, and raises
            /\ Leave(n, "raised")
            /\ Emit(n, <<"exception">>)
            /\ UNCHANGED <<local, callVars, faults, mig>>
       ELSE IF ~lifecycle[n].initialized
       THEN /\ Leave(n, "failure")
            /\ Emit(n, <<"error_uninitialized">>)
            /\ UNCHANGED <<local, callVars, faults, mig>>
       ELSE \E ok \in (IF gh[n] THEN Outcomes ELSE {TRUE}) :
             LET cache == IF gh[n] /\ ok THEN remote ELSE local[n]
                 target == resolve_target(cache, n, target_ip, auto, force)
                 sync == <<"get_current_ip">> \o
                         (IF gh[n] THEN <<"pull_nodes">> ELSE <<>>)
             IN /\ Fault(ok)
                /\ IF target = None
                   THEN /\ Leave(n, "failure")
                        /\ Emit(n, sync \o target_error(target_ip, auto))
                        /\ local' = [local EXCEPT ![n] = cache]
                        /\ UNCHANGED <<callVars, mig>>
                   ELSE IF password = "none"
                   THEN /\ Leave(n, "failure")
                        /\ Emit(n, sync \o <<"error_no_password">>)
                        /\ local' = [local EXCEPT ![n] = cache]
                        /\ UNCHANGED <<callVars, mig>>
                   ELSE /\ mig' = [mig EXCEPT ![n] = [NoMigration EXCEPT !.target_ip = target]]
                        /\ result' = [result EXCEPT ![n] = "running"]
                        /\ IF gh[n]
                           THEN /\ Call(n, "acq_pull", target, n, "m_locked")
                                /\ Emit(n, sync \o <<"acquire_lock">>)
                                /\ local' = [local EXCEPT ![n] = cache]
                           ELSE /\ local' = [local EXCEPT ![n] =
                                      scanner_update_server_status(cache, target, "transferring")]
                                /\ Emit(n, sync \o <<"scanner_update_server_status">>)
                                /\ pc' = [pc EXCEPT ![n] = "transfer"]
                                /\ UNCHANGED callVars

\* the agent is installed on the running nodes and on every node that has
\* been cloned onto
installed(n) == n \in Sources \/ lifecycle[n].initialized \/ flag[n]

\* `hermit-crab migrate` typed on node n
cmd_migrate_start(n) ==
    /\ dpc[n] = "off"
    /\ installed(n)
    /\ runs[n] < MaxRuns
    /\ \E target_ip \in Nodes \cup {None}, password \in Passwords,
          auto \in BOOLEAN, force \in BOOLEAN :
            migrate_begin(n, target_ip, password, auto, force)
    /\ runs' = [runs EXCEPT ![n] = @ + 1]
    /\ UNCHANGED <<remote, envVars, nodeVars, daemonVars>>

\* acquire_lock has returned
cmd_migrate_locked(n) ==
    /\ pc[n] = "m_locked"
    /\ IF rv[n]
       THEN /\ pc' = [pc EXCEPT ![n] = "transfer"]
            /\ UNCHANGED <<result, effects>>
       ELSE /\ Leave(n, "failure")
            /\ Emit(n, <<"error_lock">>)
    /\ rv' = [rv EXCEPT ![n] = FALSE]
    /\ frame' = [frame EXCEPT ![n] = NoFrame]
    /\ UNCHANGED <<regVars, envVars, nodeVars, nodes_data, mig, runs, faults,
                   daemonVars, handlers>>

\* the record that is written nowhere
add_migration_record_lost(record, target_ip, remaining) == record

\* the record that is put in front of the older ones
add_migration_record_prepended(record, target_ip, remaining) ==
    [record EXCEPT !.migration_history =
        <<[timestamp |-> Stamp, target_ip |-> target_ip,
           remaining_days |-> remaining]>> \o @]

\* Monitor.add_migration_record(target_server)
add_migration_record(record, target_ip, remaining) ==
    [record EXCEPT !.migration_history =
        Append(@, [timestamp |-> Stamp, target_ip |-> target_ip,
                   remaining_days |-> remaining])]

\* how steps 6-7 end: the transfer fails, the history file cannot be
\* written (add_migration_record raises: a fault), or both succeed
TransferOutcomes ==
    {"failed", "ok"} \cup (IF faults < MaxFaults THEN {"record_raises"} ELSE {})

\* steps 6-7: Migrator.perform_migration clones this node's files onto the
\* target; then the history record is written, or the lock is released
cmd_migrate_transfer(n) ==
    /\ pc[n] = "transfer"
    /\ \E outcome \in TransferOutcomes :
        /\ Fault(outcome # "record_raises")
        /\ LET started == <<"notify_migration_started", "perform_migration">>
               undo == <<"notify_migration_failed">> \o
                       (IF gh[n] THEN <<"release_lock">> ELSE <<>>)
           IN IF outcome = "ok"
              THEN /\ mig' = [mig EXCEPT ![n].transfer = "ok"]
                   /\ lifecycle' = [lifecycle EXCEPT
                          ![mig[n].target_ip] = lifecycle[n],
                          ![n] = add_migration_record(@, mig[n].target_ip, get_remaining_days(n))]
                   /\ Emit(n, started \o <<"add_migration_record">>)
                   /\ pc' = [pc EXCEPT ![n] = "init"]
                   /\ UNCHANGED <<callVars, result>>
              ELSE /\ lifecycle' = [lifecycle EXCEPT ![mig[n].target_ip] =
                                       IF outcome = "failed" THEN @ ELSE lifecycle[n]]
                   /\ Emit(n, started \o
                              (IF outcome = "failed" THEN <<"error_transfer">>
                               ELSE <<"exception">>) \o undo)
                   /\ mig' = [mig EXCEPT ![n].transfer = outcome]
                   /\ IF gh[n]
                      THEN /\ Call(n, "rel_pull", mig[n].target_ip, "idle", "m_failed")
                           /\ result' = result
                      ELSE /\ Leave(n, "failure")
                           /\ UNCHANGED callVars
    /\ UNCHANGED <<regVars, envVars, flag, notifier, runs, daemonVars, handlers>>

\* release_lock has returned after a failed transfer: its result is ignored
cmd_migrate_failed(n) ==
    /\ pc[n] = "m_failed"
    /\ Leave(n, "failure")
    /\ rv' = [rv EXCEPT ![n] = FALSE]
    /\ frame' = [frame EXCEPT ![n] = NoFrame]
    /\ UNCHANGED <<regVars, envVars, nodeVars, nodes_data, mig, runs, faults,
                   daemonVars, logVars>>

\* where Initializer.initialize_target_server stops: before the remote
\* `init` (steps 1-3 fail), before the migration flag is written (steps 4-5
\* fail), after it (steps 6-7 fail), or not at all
InitOutcomes == {"before_init", "before_flag", "after_flag", "ok"}

Lifecycle(initialized, added_date) ==
    [initialized |-> initialized, added_date |-> added_date, valid_date |-> TRUE,
     total_days |-> total_days_default, migration_history |-> <<>>]

\* the run that gives up when the initializer fails
after_initialize_abort(init_success) == IF init_success THEN "continue" ELSE "abort"

\* what cmd_migrate does once initialize_target_server has returned: it
\* logs the failure and goes on either way
after_initialize(init_success) == "continue"

\* CloudFlareAPI.get_dns_record: index of the first A record with that name,
\* 0 for None (no such record, or the request failed)
get_dns_record(records, subdomain, ok) ==
    LET hits == {i \in DOMAIN records : records[i].name = subdomain}
    IN IF ~ok \/ hits = {} THEN 0 ELSE Min(hits)

\* the update that sends its PUT without comparing the content first
update_dns_record_always_put(records, subdomain, new_ip, get_ok, write_ok) ==
    LET i == get_dns_record(records, subdomain, get_ok)
    IN IF i = 0
       THEN [requests |-> <<"GET", "POST">>, result |-> write_ok,
             zone |-> IF write_ok
                      THEN Append(records, [name |-> subdomain, content |-> new_ip])
                      ELSE records]
       ELSE [requests |-> <<"GET", "PUT">>, result |-> write_ok,
             zone |-> IF write_ok THEN [records EXCEPT ![i].content = new_ip]
                      ELSE records]

\* CloudFlareAPI.update_dns_record when is_available(): the requests sent,
\* the value returned and the zone afterwards; get_ok and write_ok say
\* whether the GET and the POST or PUT get a successful answer
update_dns_record(records, subdomain, new_ip, get_ok, write_ok) ==
    LET i == get_dns_record(records, subdomain, get_ok)
    IN IF i = 0
       THEN [requests |-> <<"GET", "POST">>, result |-> write_ok,
             zone |-> IF write_ok
                      THEN Append(records, [name |-> subdomain, content |-> new_ip])
                      ELSE records]
       ELSE IF records[i].content = new_ip
       THEN [requests |-> <<"GET">>, result |-> TRUE, zone |-> records]
       ELSE [requests |-> <<"GET", "PUT">>, result |-> write_ok,
             zone |-> IF write_ok THEN [records EXCEPT ![i].content = new_ip]
                      ELSE records]

\* the business subdomain and the one kept for retired nodes
Subdomains == {"www", "b"}

\* how the API answers one call: well, or with a failed GET, a failed
\* POST or PUT, or both (each a fault)
ApiOutcomes ==
    {[get |-> TRUE, write |-> TRUE]} \cup
    (IF faults < MaxFaults
     THEN {[get |-> g, write |-> w] : g \in BOOLEAN, w \in BOOLEAN}
     ELSE {})

\* a call of update_dns_record(subdomain, new_ip) on node n: rv is what it
\* returns and effects the requests it has sent
cloudflare_update_dns_record(n) ==
    /\ pc[n] = "idle"
    /\ dpc[n] = "off"
    /\ \E subdomain \in Subdomains, new_ip \in Nodes, api \in ApiOutcomes :
        LET call == update_dns_record(zone, subdomain, new_ip, api.get, api.write)
        IN /\ frame' = [frame EXCEPT ![n] =
                          [entry |-> "update_dns_record", server_id |-> subdomain,
                           arg |-> new_ip, cont |-> "idle"]]
           /\ IF cf[n]
              THEN /\ zone' = call.zone
                   /\ rv' = [rv EXCEPT ![n] = call.result]
                   /\ effects' = [effects EXCEPT ![n] = call.requests]
                   /\ Fault(api.get /\ api.write)
              ELSE /\ rv' = [rv EXCEPT ![n] = FALSE]
                   /\ effects' = [effects EXCEPT ![n] = <<>>]
                   /\ UNCHANGED <<zone, faults>>
    /\ UNCHANGED <<regVars, gh, now, cf, nodeVars, pc, nodes_data, cmdVars,
                   daemonVars, handlers>>

\* step 9 on the zone: the business subdomain is pointed at the target and
\* `b` at the retired source; a call whose requests fail changes nothing
dns_zone_after(n, target_ip, primary_ok, retired_ok) ==
    IF ~cf[n] THEN zone
    ELSE update_dns_record(
            update_dns_record(zone, "www", target_ip, primary_ok, primary_ok).zone,
            "b", n, retired_ok, retired_ok).zone

\* step 9 of the DNS cutover, when CloudFlare is available
dns_cutover(n) ==
    IF cf[n] THEN <<"update_domain_for_migration", "update_dns_record">> ELSE <<>>

\* steps 8-9: initialize the target, cut the DNS over, then update the
\* registry: remotely through update_server_status, or locally
cmd_migrate_init(n) ==
    /\ pc[n] = "init"
    /\ \E outcome \in InitOutcomes :
        LET initialized == <<"initialize_target_server">> \o
                           (IF outcome = "ok" THEN <<>> ELSE <<"error_init">>)
        IN /\ lifecycle' = [lifecycle EXCEPT ![mig[n].target_ip] =
                               IF outcome = "before_init" THEN @
                               ELSE Lifecycle(TRUE, now.day)]
           /\ flag' = [flag EXCEPT ![mig[n].target_ip] =
                               @ \/ outcome \in {"after_flag", "ok"}]
           /\ \E primary_ok \in BOOLEAN, retired_ok \in BOOLEAN :
                zone' = IF after_initialize(outcome = "ok") = "abort" THEN zone
                        ELSE dns_zone_after(n, mig[n].target_ip, primary_ok, retired_ok)
           /\ IF after_initialize(outcome = "ok") = "abort"
              THEN /\ Leave(n, "failure")
                   /\ Emit(n, initialized)
                   /\ UNCHANGED <<local, callVars>>
              ELSE IF gh[n]
              THEN /\ Call(n, "upd_pull", mig[n].target_ip, "active", "rm_pull")
                   /\ Emit(n, initialized \o dns_cutover(n) \o <<"update_server_status">>)
                   /\ UNCHANGED <<local, result>>
              ELSE /\ local' = [local EXCEPT ![n] =
                         WithoutIp(scanner_update_server_status(@, mig[n].target_ip, "active"), n)]
                   /\ Emit(n, initialized \o dns_cutover(n) \o
                              <<"scanner_update_server_status", "save_nodes">>)
                   /\ pc' = [pc EXCEPT ![n] = "final"]
                   /\ UNCHANGED <<callVars, result>>
    /\ UNCHANGED <<remote, gh, now, cf, notifier, mig, runs, faults, daemonVars,
                   handlers>>

\* the retired source is dropped from the remote registry: pull and filter
\* (update_server_status has returned: its result is ignored)
cmd_migrate_remove_pull(n) ==
    /\ pc[n] = "rm_pull"
    /\ \E ok \in Outcomes :
        /\ Fault(ok)
        /\ IF ok
           THEN /\ nodes_data' = [nodes_data EXCEPT ![n] = WithoutIp(remote, n)]
                /\ pc' = [pc EXCEPT ![n] = "rm_push"]
           ELSE /\ nodes_data' = nodes_data
                /\ pc' = [pc EXCEPT ![n] = "final"]
    /\ Emit(n, <<"pull_nodes">>)
    /\ rv' = [rv EXCEPT ![n] = FALSE]
    /\ frame' = [frame EXCEPT ![n] = NoFrame]
    /\ UNCHANGED <<regVars, envVars, nodeVars, cmdVars, daemonVars, handlers>>

\* ... and push
cmd_migrate_remove_push(n) ==
    /\ pc[n] = "rm_push"
    /\ \E ok \in Outcomes :
        /\ Fault(ok)
        /\ remote' = push_nodes(remote, nodes_data[n], ok)
    /\ Emit(n, <<"push_nodes">>)
    /\ nodes_data' = [nodes_data EXCEPT ![n] = <<>>]
    /\ pc' = [pc EXCEPT ![n] = "final"]
    /\ UNCHANGED <<local, envVars, nodeVars, frame, rv, cmdVars, daemonVars, handlers>>

\* Migrator.sync_final_updates: rsync --delete of the source's data/
\* directory onto the target's. files is one file of that directory on every
\* node (lifecycle.json, nodes.json or migration_flag.json): when the rsync
\* works the target's copy becomes the source's, present or absent
sync_final_updates(files, source_ip, target_ip, ok) ==
    IF ok THEN [files EXCEPT ![target_ip] = files[source_ip]] ELSE files

\* steps 10-14: the final re-sync, whose failure only warns, and the
\* success notification
cmd_migrate_final(n) ==
    /\ pc[n] = "final"
    /\ \E ok \in Outcomes :
        /\ Fault(ok)
        /\ lifecycle' = sync_final_updates(lifecycle, n, mig[n].target_ip, ok)
        /\ flag' = sync_final_updates(flag, n, mig[n].target_ip, ok)
        /\ local' = sync_final_updates(local, n, mig[n].target_ip, ok)
    /\ Leave(n, "success")
    /\ Emit(n, <<"sync_final_updates", "notify_migration_success">>)
    /\ UNCHANGED <<remote, envVars, notifier, callVars, mig, runs, daemonVars, handlers>>

\* finally: the log file is detached and closed, and the command is over
cmd_migrate_finally(n) ==
    /\ pc[n] = "finally"
    /\ pc' = [pc EXCEPT ![n] = "idle"]
    /\ handlers' = [handlers EXCEPT ![n] = removeHandler(@)]
    /\ effects' = [effects EXCEPT ![n] = <<>>]
    /\ mig' = [mig EXCEPT ![n] = NoMigration]
    /\ UNCHANGED <<regVars, envVars, nodeVars, callVars, result, runs, faults,
                   daemonVars>>

(***************************************************************************)
(* agent.py: cmd_feedback(source_ip)                                       *)
(***************************************************************************)
\* the flag is read, the source is signalled over SSH, the flag is deleted
\* and the node's own status is updated remotely
cmd_feedback_start(n) ==
    /\ pc[n] = "idle"
    /\ dpc[n] = "off"
    /\ installed(n)
    /\ runs[n] < MaxRuns
    /\ runs' = [runs EXCEPT ![n] = @ + 1]
    /\ \E returncode_ok \in BOOLEAN :
        IF ~flag[n] \/ ~returncode_ok
        THEN /\ Finish(n, "failure")
             /\ UNCHANGED <<flag, callVars>>
        ELSE /\ flag' = [flag EXCEPT ![n] = FALSE]
             /\ IF gh[n]
                THEN /\ Call(n, "upd_pull", n, "active", "fb_done")
                     /\ result' = [result EXCEPT ![n] = "running"]
                     /\ mig' = mig
                ELSE /\ Finish(n, "success")
                     /\ UNCHANGED callVars
    /\ UNCHANGED <<regVars, envVars, lifecycle, notifier, faults, daemonVars, logVars>>

\* update_server_status has returned: its result is ignored
cmd_feedback_done(n) ==
    /\ pc[n] = "fb_done"
    /\ Finish(n, "success")
    /\ rv' = [rv EXCEPT ![n] = FALSE]
    /\ frame' = [frame EXCEPT ![n] = NoFrame]
    /\ UNCHANGED <<regVars, envVars, nodeVars, nodes_data, runs, faults, daemonVars, logVars>>

(***************************************************************************)
(* notification.py                                                         *)
(***************************************************************************)
\* ResendNotifier.__init__: enabled is cleared when the key or the
\* recipients are missing; the object has no other attribute yet
ResendNotifier(enabled, api_key, to_emails) ==
    [enabled |-> enabled /\ api_key /\ to_emails,
     api_key |-> api_key, to_emails |-> to_emails, enabled_ |-> None]

\* ResendNotifier.is_available
is_available(n) ==
    notifier[n].enabled /\ notifier[n].api_key /\ notifier[n].to_emails

\* the keyword parameters notify_lifecycle_warning declares
notify_lifecycle_warning_params ==
    {"server_ip", "remaining_days", "total_days", "domain"}

(***************************************************************************)
(* agent.py: cmd_check                                                     *)
(***************************************************************************)
\* the keyword arguments cmd_check passes to notify_lifecycle_warning
cmd_check_kwargs ==
    {"server_ip", "remaining_days", "total_days", "domain", "available_servers_count"}

\* cmd_check: "false", "true", or "raise" when the notifier call cannot bind
\* its keyword arguments (TypeError, raised before the notifier body runs)
cmd_check(n) ==
    IF get_status_raises(n) THEN "raise"
    ELSE IF ~lifecycle[n].initialized THEN "false"
    ELSE IF ~should_migrate(n) THEN "false"
    ELSE IF cmd_check_kwargs \subseteq notify_lifecycle_warning_params THEN "true"
    ELSE "raise"

(***************************************************************************)
(* agent.py: cmd_daemon                                                    *)
(***************************************************************************)
\* top of the loop body: the registry refresh
daemon_refresh(n) ==
    /\ dpc[n] = "loop"
    /\ iter[n] < MaxIterations
    /\ iter' = [iter EXCEPT ![n] = @ + 1]
    /\ \E ok \in (IF gh[n] THEN Outcomes ELSE {TRUE}) :
        /\ Fault(ok)
        /\ local' = [local EXCEPT ![n] = IF gh[n] /\ ok THEN remote ELSE @]
    /\ dpc' = [dpc EXCEPT ![n] = "check"]
    /\ UNCHANGED <<remote, envVars, nodeVars, pc, callVars, cmdVars, logVars>>

\* the loop retrying at once after an exception, without the handler's pause
after_check_no_pause(r) ==
    CASE r = "true" -> "migrate"
      [] r = "false" -> "sleep"
      [] r = "raise" -> "loop"

\* where the loop goes after cmd_check returned or raised r
after_check(r) ==
    CASE r = "true" -> "migrate"
      [] r = "false" -> "sleep"
      [] r = "raise" -> "recover"

\* if self.cmd_check(): ... else fall through to the sleep; an exception
\* lands in `except Exception`
daemon_check(n) ==
    /\ dpc[n] = "check"
    /\ dpc' = [dpc EXCEPT ![n] = after_check(cmd_check(n))]
    /\ UNCHANGED <<regVars, envVars, nodeVars, pc, callVars, cmdVars, faults, iter, logVars>>

\* success = self.cmd_migrate(auto=True)
daemon_migrate(n) ==
    /\ dpc[n] = "migrate"
    /\ \E password \in {"env", "none"} : migrate_begin(n, None, password, TRUE, FALSE)
    /\ dpc' = [dpc EXCEPT ![n] = "migrating"]
    /\ UNCHANGED <<remote, envVars, nodeVars, runs, iter>>

\* the retirement block's effect on the notifier: self.notifier._enabled = False
retire_notifier(nf) == [nf EXCEPT !.enabled_ = "False"]

\* where the loop goes after cmd_migrate returned success or failure
after_migrate(r) ==
    CASE r = "success" -> "exited"
      [] r = "raised" -> "recover"
      [] OTHER -> "sleep"

\* cmd_migrate has returned: on success the service is stopped and the
\* notifier switched off (unless systemctl cannot be run) and the loop
\* breaks; on failure the loop goes on to its sleep
daemon_migrated(n) ==
    /\ dpc[n] = "migrating"
    /\ pc[n] = "idle"
    /\ dpc' = [dpc EXCEPT ![n] = after_migrate(result[n])]
    /\ IF result[n] = "success"
       THEN \E systemctl_runs \in BOOLEAN :
               notifier' = [notifier EXCEPT ![n] =
                               IF systemctl_runs THEN retire_notifier(@) ELSE @]
       ELSE notifier' = notifier
    /\ UNCHANGED <<regVars, envVars, lifecycle, flag, pc, callVars, cmdVars, faults, iter, logVars>>

\* time.sleep(check_interval)
daemon_sleep(n) ==
    /\ dpc[n] = "sleep"
    /\ dpc' = [dpc EXCEPT ![n] = "loop"]
    /\ UNCHANGED <<regVars, envVars, nodeVars, pc, callVars, cmdVars, faults, iter, logVars>>

\* the handler leaving the loop instead of retrying
after_exception_break == "exited"

\* where the `except Exception` handler leaves the loop after its pause
after_exception == "loop"

\* except Exception: log, time.sleep(60), next iteration
daemon_recover(n) ==
    /\ dpc[n] = "recover"
    /\ dpc' = [dpc EXCEPT ![n] = after_exception]
    /\ UNCHANGED <<regVars, envVars, nodeVars, pc, callVars, cmdVars, faults, iter, logVars>>

\* Ctrl-C while the loop waits or checks: except KeyboardInterrupt, break
\* (raised inside the handler's pause it ends the loop uncaught)
daemon_interrupt(n) ==
    /\ dpc[n] \in {"loop", "check", "sleep", "recover"}
    /\ dpc' = [dpc EXCEPT ![n] = "interrupted"]
    /\ UNCHANGED <<regVars, envVars, nodeVars, pc, callVars, cmdVars, faults, iter, logVars>>

(***************************************************************************)
(* A caller that uses GitHubSync directly, one method call at a time.      *)
(***************************************************************************)
\* the second argument: a lock holder, or the status to set
SyncArgs(label) == IF label = "acq_pull" THEN Sources ELSE {"idle", "active"}

\* each method starts with `if not self.is_available(): return False`
sync_call(n) ==
    /\ pc[n] = "idle"
    /\ dpc[n] = "off"
    /\ installed(n)
    /\ runs[n] < MaxRuns
    /\ runs' = [runs EXCEPT ![n] = @ + 1]
    /\ \E label \in {"acq_pull", "rel_pull", "upd_pull"}, server_id \in Nodes :
        \E arg \in SyncArgs(label) :
            IF gh[n]
            THEN Call(n, label, server_id, arg, "idle")
            ELSE /\ rv' = [rv EXCEPT ![n] = FALSE]
                 /\ UNCHANGED <<pc, frame, nodes_data>>
    /\ UNCHANGED <<regVars, envVars, nodeVars, mig, result, faults, daemonVars, logVars>>

(***************************************************************************)
(* The Scanner's selections, called as cmd_migrate calls them: on the      *)
(* node's local registry, with the node's own remaining days.              *)
(***************************************************************************)
\* target_server = self.scanner.select_target_server(current_remaining)
scanner_select_target(n) ==
    /\ pc[n] = "idle"
    /\ dpc[n] = "off"
    /\ runs[n] < MaxRuns
    /\ runs' = [runs EXCEPT ![n] = @ + 1]
    /\ frame' = [frame EXCEPT ![n] =
                    [entry |-> "select_target_server", server_id |-> None,
                     arg |-> get_remaining_days(n), cont |-> "idle"]]
    /\ rv' = [rv EXCEPT ![n] =
                    select_target_server(local[n], n, get_remaining_days(n))]
    /\ UNCHANGED <<regVars, envVars, nodeVars, pc, nodes_data, mig, result,
                   faults, daemonVars, logVars>>

\* target_server = self.scanner.select_longest_remaining_server()
scanner_select_longest(n) ==
    /\ pc[n] = "idle"
    /\ dpc[n] = "off"
    /\ runs[n] < MaxRuns
    /\ runs' = [runs EXCEPT ![n] = @ + 1]
    /\ frame' = [frame EXCEPT ![n] =
                    [entry |-> "select_longest_remaining_server", server_id |-> None,
                     arg |-> None, cont |-> "idle"]]
    /\ rv' = [rv EXCEPT ![n] = select_longest_remaining_server(local[n], n)]
    /\ UNCHANGED <<regVars, envVars, nodeVars, pc, nodes_data, mig, result,
                   faults, daemonVars, logVars>>

\* the ips typed after `add` and `remove`: the node's own and the spare's
RegistryIps == {"a", "c"}

(***************************************************************************)
(* agent.py: cmd_add_server, cmd_remove_server; Scanner.update_server_status *)
(***************************************************************************)
\* the registry command just run on n, kept in the call record
RegistryCall(n, entry, ip) ==
    frame' = [frame EXCEPT ![n] =
                [entry |-> entry, server_id |-> ip, arg |-> None, cont |-> "idle"]]

\* after a local change the whole local list is pushed, if GitHub is
\* available; the result of the push is only logged
sync_to_github(n, changed, servers) ==
    IF gh[n] /\ changed
    THEN \E ok \in Outcomes :
            /\ Fault(ok)
            /\ remote' = push_nodes(remote, servers, ok)
    ELSE UNCHANGED <<remote, faults>>

\* `hermit-crab add <ip>`
cmd_add_server(n) ==
    /\ pc[n] = "idle"
    /\ dpc[n] = "off"
    /\ \E ip \in RegistryIps :
        LET servers == add_server(local[n], ip, now.day)
            added == servers # local[n]
        IN /\ local' = [local EXCEPT ![n] = servers]
           /\ result' = [result EXCEPT ![n] = IF added THEN "success" ELSE "failure"]
           /\ RegistryCall(n, "add_server", ip)
           /\ sync_to_github(n, added, servers)
    /\ UNCHANGED <<envVars, nodeVars, pc, nodes_data, rv, mig, runs, daemonVars, logVars>>

\* `hermit-crab remove <ip>`
cmd_remove_server(n) ==
    /\ pc[n] = "idle"
    /\ dpc[n] = "off"
    /\ \E ip \in RegistryIps :
        LET servers == remove_server(local[n], ip)
            removed == Len(servers) # Len(local[n])
        IN /\ local' = [local EXCEPT ![n] = servers]
           /\ result' = [result EXCEPT ![n] = IF removed THEN "success" ELSE "failure"]
           /\ RegistryCall(n, "remove_server", ip)
           /\ sync_to_github(n, removed, servers)
    /\ UNCHANGED <<envVars, nodeVars, pc, nodes_data, rv, mig, runs, daemonVars, logVars>>

\* Scanner.update_server_status(ip, status) on the local registry
scanner_set_status(n) ==
    /\ pc[n] = "idle"
    /\ dpc[n] = "off"
    /\ \E ip \in RegistryIps, status \in Statuses :
        /\ local' = [local EXCEPT ![n] = scanner_update_server_status(@, ip, status)]
        /\ RegistryCall(n, "update_server_status", ip)
    /\ UNCHANGED <<remote, envVars, nodeVars, pc, nodes_data, rv, cmdVars, faults,
                   daemonVars, logVars>>

(***************************************************************************)
(* agent.py: cmd_init and cmd_update_lifecycle                             *)
(***************************************************************************)
\* `hermit-crab init`: Monitor.initialize_lifecycle writes a new
\* lifecycle.json, added_date today and migration_history empty, over
\* whatever the file held
cmd_init(n) ==
    /\ pc[n] = "idle"
    /\ dpc[n] = "off"
    /\ lifecycle' = [lifecycle EXCEPT ![n] = Lifecycle(TRUE, now.day)]
    /\ result' = [result EXCEPT ![n] = "success"]
    /\ RegistryCall(n, "init", None)
    /\ UNCHANGED <<regVars, envVars, flag, notifier, pc, nodes_data, rv, mig, runs,
                   faults, daemonVars, logVars>>

\* the texts given as --old-lifecycle and --old-lifecycle-base64: none, a
\* text that does not decode, or the encoded lifecycle.json of node `of`
NoPayload == [given |-> FALSE, decodes |-> FALSE, of |-> None]

Payloads ==
    {NoPayload, [given |-> TRUE, decodes |-> FALSE, of |-> None]}
        \cup {[given |-> TRUE, decodes |-> TRUE, of |-> m] : m \in Sources}

\* base64.b64decode(...).decode('utf-8') and json.loads: the node whose
\* lifecycle.json the text holds, or None when decoding raises
loads(text) == IF text.decodes THEN text.of ELSE None

\* old_lifecycle: the base64 text is preferred, and the JSON text is not
\* tried when the base64 one is given but does not decode
parse_old_lifecycle(old_lifecycle_base64, old_lifecycle_json) ==
    IF old_lifecycle_base64.given THEN loads(old_lifecycle_base64)
    ELSE IF old_lifecycle_json.given THEN loads(old_lifecycle_json)
    ELSE None

\* `hermit-crab update-lifecycle`: the cache is refreshed, the node's own
\* record is looked up by ip, the payload is decoded, and then
\* self.monitor.update_lifecycle_for_migration is called: Monitor defines
\* no such method, so the call raises AttributeError and lifecycle.json is
\* left as it was
cmd_update_lifecycle(n) ==
    /\ pc[n] = "idle"
    /\ dpc[n] = "off"
    /\ \E old_lifecycle_base64 \in Payloads, old_lifecycle_json \in Payloads,
          ok \in (IF gh[n] THEN Outcomes ELSE {TRUE}) :
        LET cache == IF gh[n] /\ ok THEN remote ELSE local[n]
            old_lifecycle == parse_old_lifecycle(old_lifecycle_base64, old_lifecycle_json)
        IN /\ Fault(ok)
           /\ local' = [local EXCEPT ![n] = cache]
           /\ IF FindByIp(cache, n) = 0
              THEN /\ result' = [result EXCEPT ![n] = "failure"]
                   /\ RegistryCall(n, "update_lifecycle", None)
              ELSE /\ result' = [result EXCEPT ![n] = "raised"]
                   /\ RegistryCall(n, "update_lifecycle", old_lifecycle)
    /\ UNCHANGED <<remote, envVars, nodeVars, pc, nodes_data, rv, mig, runs,
                   daemonVars, logVars>>

(***************************************************************************)
(* utils.py: get_ssh_password(target)                                      *)
(***************************************************************************)
\* strings are sequences of tokens: host names, passwords, ":" and "|";
\* s.find(c) + 1: position of the first c in s, 0 when there is none
find(s, c) ==
    LET hits == {i \in DOMAIN s : s[i] = c}
    IN IF hits = {} THEN 0 ELSE Min(hits)

RECURSIVE split(_, _)
\* s.split(sep): the pieces of s between the separators
split(s, sep) ==
    IF find(s, sep) = 0 THEN <<s>>
    ELSE <<SubSeq(s, 1, find(s, sep) - 1)>>
            \o split(SubSeq(s, find(s, sep) + 1, Len(s)), sep)

RECURSIVE lookup(_, _)
\* the loop over the mappings: the password of the first `host:password`
\* whose host is the target, as <<password>>, or <<>> when the loop ends
lookup(mappings, target) ==
    IF mappings = <<>> THEN <<>>
    ELSE LET mapping == Head(mappings)
             colon == find(mapping, ":")
         IN IF colon # 0 /\ SubSeq(mapping, 1, colon - 1) = <<target>>
            THEN <<SubSeq(mapping, colon + 1, Len(mapping))>>
            ELSE lookup(Tail(mappings), target)

\* get_ssh_password: <<password>>, or <<>> for None; an unset variable is
\* the empty string
get_ssh_password(password_map, password_env, target) ==
    LET mapped == IF password_map # <<>> /\ target # None
                  THEN lookup(split(password_map, "|"), target)
                  ELSE <<>>
    IN IF mapped # <<>> THEN mapped
       ELSE IF password_env = <<>> THEN <<>>
       ELSE IF find(password_env, "|") # 0 /\ target # None
       THEN lookup(split(password_env, "|"), target)
       ELSE <<password_env>>

\* values of HERMIT_SSH_PASSWORD and HERMIT_SSH_PASSWORD_MAP: unset, a plain
\* password, one mapping, two mappings in either order, a mapping followed
\* by a bar, a mapping to an empty password, bars without a colon
EnvValues ==
    { <<>>, <<"secretB">>,
      <<"1.2.3.4", ":", "secretA">>,
      <<"5.6.7.8", ":", "secretC">>,
      <<"1.2.3.4", ":", "secretA", "|", "5.6.7.8", ":", "secretC">>,
      <<"5.6.7.8", ":", "secretC", "|", "1.2.3.4", ":", "secretA">>,
      <<"1.2.3.4", ":", "secretA", "|">>,
      <<"1.2.3.4", ":">>,
      <<"secretA", "|", "secretB">> }

\* the hosts asked for; 9.9.9.9 is in no mapping
Hosts == {"1.2.3.4", "5.6.7.8", "9.9.9.9"}

\* get_ssh_password(target) is called on node n under some environment
resolve_ssh_password(n) ==
    /\ pc[n] = "idle"
    /\ dpc[n] = "off"
    /\ \E password_map \in EnvValues, password_env \in EnvValues, target \in Hosts :
        frame' = [frame EXCEPT ![n] =
                    [entry |-> "get_ssh_password", server_id |-> target,
                     arg |-> [password_map |-> password_map,
                              password_env |-> password_env,
                              password |-> get_ssh_password(password_map,
                                                            password_env, target)],
                     cont |-> "idle"]]
    /\ UNCHANGED <<regVars, envVars, nodeVars, pc, nodes_data, rv, cmdVars, faults,
                   daemonVars, logVars>>

(***************************************************************************)
(* migrator.py: Migrator.perform_migration, one step of it at a time.      *)
(* The call's arguments are kept in frame, the steps started and how each  *)
(* ended in effects, the returned value in rv.                             *)
(***************************************************************************)
\* how a step can end: test_ssh_connection, setup_ssh_key and
\* rsync_system_files return True or False; setup_ssh_key can also raise
\* (os.makedirs outside run_command); backup_critical_files and
\* restore_network_config log a warning for a command that failed and
\* return True; tar_stream_transfer returns False for a failed directory.
\* Of the Initializer's steps sync_config_to_target can raise
\* (subprocess.run with a timeout) and reboot_target_server returns True
\* without a reboot when debug.skip_reboot is set
StepOutcomes(step) ==
    CASE step \in {"setup_ssh_key", "setup_ssh_key_again", "sync_config_to_target"}
            -> {"ok", "failed", "raised"}
      [] step = "reboot_target_server" -> {"ok", "failed", "skipped"}
      [] OTHER -> {"ok", "failed"}

\* step 1 not checked: the migration goes on to whatever comes next
after_test_ssh_connection_unchecked(outcome, password) ==
    IF password THEN "setup_ssh_key" ELSE "backup_critical_files"

\* 1. test_ssh_connection, with the password when there is one
after_test_ssh_connection(outcome, password) ==
    IF outcome # "ok" THEN "False"
    ELSE IF password THEN "setup_ssh_key"
    ELSE "backup_critical_files"

\* 2. setup_ssh_key
after_setup_ssh_key(outcome) ==
    IF outcome # "ok" THEN "False" ELSE "backup_critical_files"

\* 3. backup_critical_files always returns True
after_backup_critical_files(outcome) == "rsync_system_files"

\* 4. rsync_system_files
after_rsync_system_files(outcome, password) ==
    IF outcome # "ok" THEN "False"
    ELSE IF password THEN "setup_ssh_key_again"
    ELSE "restore_network_config"

\* 5. setup_ssh_key once more, rsync having overwritten authorized_keys
after_setup_ssh_key_again(outcome) ==
    IF outcome # "ok" THEN "False" ELSE "restore_network_config"

\* 6. restore_network_config always returns True; 7. only with tar_dirs
after_restore_network_config(outcome, tar_dirs) ==
    IF tar_dirs THEN "tar_stream_transfer" ELSE "True"

\* 7. a failed tar_stream_transfer is a warning
after_tar_stream_transfer(outcome) == "True"

\* the step at pc[n] ends with outcome and perform_migration goes to next,
\* a step or its return value
Step(n, outcome, next) ==
    /\ outcome \in StepOutcomes(pc[n])
    /\ effects' = [effects EXCEPT ![n] = @ \o <<pc[n], outcome>>]
    /\ IF next \in {"True", "False"}
       THEN /\ pc' = [pc EXCEPT ![n] = "idle"]
            /\ rv' = [rv EXCEPT ![n] = (next = "True")]
       ELSE /\ pc' = [pc EXCEPT ![n] = next]
            /\ rv' = rv
    /\ UNCHANGED <<regVars, envVars, nodeVars, frame, nodes_data, cmdVars, faults,
                   daemonVars, handlers>>

\* self.migrator.perform_migration(target_ip, password)
perform_migration(n) ==
    /\ pc[n] = "idle"
    /\ dpc[n] = "off"
    /\ frame[n] = NoFrame
    /\ \E target_ip \in Spares \cup {"b"}, password \in BOOLEAN, tar_dirs \in BOOLEAN :
        frame' = [frame EXCEPT ![n] =
                    [entry |-> "perform_migration", server_id |-> target_ip,
                     arg |-> [password |-> password, tar_dirs |-> tar_dirs],
                     cont |-> "idle"]]
    /\ pc' = [pc EXCEPT ![n] = "test_ssh_connection"]
    /\ UNCHANGED <<regVars, envVars, nodeVars, nodes_data, rv, cmdVars, faults,
                   daemonVars, logVars>>

test_ssh_connection(n) ==
    /\ pc[n] = "test_ssh_connection"
    /\ \E outcome \in {"ok", "failed"} :
        Step(n, outcome, after_test_ssh_connection(outcome, frame[n].arg.password))

setup_ssh_key(n) ==
    /\ pc[n] = "setup_ssh_key"
    /\ \E outcome \in {"ok", "failed", "raised"} :
        Step(n, outcome, after_setup_ssh_key(outcome))

backup_critical_files(n) ==
    /\ pc[n] = "backup_critical_files"
    /\ \E outcome \in {"ok", "failed"} :
        Step(n, outcome, after_backup_critical_files(outcome))

rsync_system_files(n) ==
    /\ pc[n] = "rsync_system_files"
    /\ \E outcome \in {"ok", "failed"} :
        Step(n, outcome, after_rsync_system_files(outcome, frame[n].arg.password))

setup_ssh_key_again(n) ==
    /\ pc[n] = "setup_ssh_key_again"
    /\ \E outcome \in {"ok", "failed", "raised"} :
        Step(n, outcome, after_setup_ssh_key_again(outcome))

restore_network_config(n) ==
    /\ pc[n] = "restore_network_config"
    /\ \E outcome \in {"ok", "failed"} :
        Step(n, outcome, after_restore_network_config(outcome, frame[n].arg.tar_dirs))

tar_stream_transfer(n) ==
    /\ pc[n] = "tar_stream_transfer"
    /\ \E outcome \in {"ok", "failed"} :
        Step(n, outcome, after_tar_stream_transfer(outcome))

(***************************************************************************)
(* initializer.py: Initializer.initialize_target_server, one step at a     *)
(* time. Time is counted in check intervals of wait_for_target_online      *)
(* (10 s); the call's settings and the time waited so far are in frame.    *)
(***************************************************************************)
MaxWait == 3

\* the verification's result deciding the returned value
after_verify_services_checked(outcome) ==
    IF outcome = "ok" THEN "True" ELSE "False"

\* 8. verify_services_on_target: its result is not looked at
after_verify_services_on_target(outcome) == "True"

\* steps 1 to 7: `if not self.<step>(...): return False`, where
\* cleanup_python_cache and setup_systemd_service_on_target always return
\* True
after_initializer_step(step, outcome) ==
    CASE step = "sync_config_to_target" ->
            IF outcome = "ok" THEN "cleanup_python_cache" ELSE "False"
      [] step = "cleanup_python_cache" -> "update_lifecycle_on_target"
      [] step = "update_lifecycle_on_target" ->
            IF outcome = "ok" THEN "setup_systemd_service_on_target" ELSE "False"
      [] step = "setup_systemd_service_on_target" -> "create_migration_flag"
      [] step = "create_migration_flag" ->
            IF outcome = "ok" THEN "reboot_target_server" ELSE "False"
      [] step = "reboot_target_server" ->
            IF outcome \in {"ok", "skipped"} THEN "wait_for_target_online" ELSE "False"
      [] step = "wait_for_target_online" ->
            IF outcome = "ok" THEN "verify_services_on_target" ELSE "False"
      [] step = "verify_services_on_target" -> after_verify_services_on_target(outcome)

\* self.initializer.initialize_target_server(target_ip, target_server, migrator)
initialize_target_server(n) ==
    /\ pc[n] = "idle"
    /\ dpc[n] = "off"
    /\ frame[n] = NoFrame
    /\ \E startup_wait \in 0..MaxWait, skip_reboot \in BOOLEAN :
        frame' = [frame EXCEPT ![n] =
                    [entry |-> "initialize_target_server", server_id |-> "c",
                     arg |-> [startup_wait |-> startup_wait,
                              skip_reboot |-> skip_reboot, elapsed |-> 0,
                              probes |-> 0],
                     cont |-> "idle"]]
    /\ pc' = [pc EXCEPT ![n] = "sync_config_to_target"]
    /\ UNCHANGED <<regVars, envVars, nodeVars, nodes_data, rv, cmdVars, faults,
                   daemonVars, logVars>>

\* steps 1 to 6 and step 8
initializer_step(n) ==
    /\ pc[n] \in {"sync_config_to_target", "cleanup_python_cache",
                  "update_lifecycle_on_target", "setup_systemd_service_on_target",
                  "create_migration_flag", "reboot_target_server",
                  "verify_services_on_target"}
    /\ \E outcome \in StepOutcomes(pc[n]) :
        /\ pc[n] = "reboot_target_server"
              => (outcome = "skipped" <=> frame[n].arg.skip_reboot)
        /\ Step(n, outcome, after_initializer_step(pc[n], outcome))

\* 7. while time.time() - start_time < max_wait: one probe, returning True
\* when it succeeds and sleeping for the check interval when not (the probe
\* itself may take up to another interval); after the loop, return False
wait_for_target_online(n) ==
    /\ pc[n] = "wait_for_target_online"
    /\ LET wait == frame[n].arg
           probed == [wait EXCEPT !.probes = @ + 1]
       IN IF wait.elapsed < wait.startup_wait
          THEN \/ /\ frame' = [frame EXCEPT ![n].arg = probed]
                  /\ effects' = [effects EXCEPT ![n] =
                                    @ \o <<"wait_for_target_online", "ok">>]
                  /\ pc' = [pc EXCEPT ![n] =
                              after_initializer_step("wait_for_target_online", "ok")]
               \/ /\ \E took \in {1, 2} :
                       frame' = [frame EXCEPT ![n].arg =
                                    [probed EXCEPT !.elapsed = @ + took]]
                  /\ UNCHANGED <<effects, pc>>
          ELSE /\ frame' = frame
               /\ effects' = [effects EXCEPT ![n] =
                                 @ \o <<"wait_for_target_online", "failed">>]
               /\ pc' = [pc EXCEPT ![n] = "idle"]
    /\ rv' = [rv EXCEPT ![n] = FALSE]
    /\ UNCHANGED <<regVars, envVars, nodeVars, nodes_data, cmdVars, faults,
                   daemonVars, handlers>>

(***************************************************************************)
(* Initial states.                                                         *)
(***************************************************************************)
\* dates are day numbers and today is day 0:
\* a started its lease 12 days ago, b 11 days ago; c was added today
AddedDate == [n \in Nodes |-> CASE n = "a" -> -12 [] n = "b" -> -11 [] OTHER -> 0]

\* the registry after `add` of the three nodes, a and b in service; the
\* spare's record may carry the id key that GitHubSync looks servers up by
Registry(spare_id, spare_status, holder) ==
    << ServerRecord("a", None, AddedDate["a"], "active"),
       ServerRecord("b", None, AddedDate["b"], "active"),
       [ServerRecord("c", spare_id, AddedDate["c"], spare_status)
           EXCEPT !.lock_holder = holder,
                  !.lock_time = IF holder = None THEN None ELSE Stamp] >>

InitAgents ==
    /\ pc = [n \in Nodes |-> "idle"]
    /\ frame = [n \in Nodes |-> NoFrame]
    /\ nodes_data = [n \in Nodes |-> <<>>]
    /\ rv = [n \in Nodes |-> FALSE]
    /\ mig = [n \in Nodes |-> NoMigration]
    /\ result = [n \in Nodes |-> "none"]
    /\ runs = [n \in Nodes |-> 0]
    /\ faults = 0
    /\ iter = [n \in Nodes |-> 0]
    /\ flag = [n \in Nodes |-> FALSE]
    /\ effects = [n \in Nodes |-> <<>>]
    /\ handlers = [n \in Nodes |-> 0]
    /\ zone = <<>>

\* operators type `migrate` and `feedback` on the nodes
Init ==
    /\ InitAgents
    /\ \E spare_id \in {None, "c"} :
        /\ remote = Registry(spare_id, "idle", None)
        /\ local = [n \in Nodes |-> Registry(spare_id, "idle", None)]
    /\ gh \in [Nodes -> BOOLEAN]
    /\ now = [day |-> 0, tod |-> 1]
    /\ lifecycle = [n \in Nodes |-> Lifecycle(n \in Sources, AddedDate[n])]
    /\ notifier = [n \in Nodes |-> ResendNotifier(FALSE, FALSE, FALSE)]
    /\ dpc = [n \in Nodes |-> "off"]
    /\ cf = [n \in Nodes |-> FALSE]

Next ==
    \E n \in Nodes :
        \/ cmd_migrate_start(n)
        \/ cmd_migrate_locked(n)
        \/ cmd_migrate_transfer(n)
        \/ cmd_migrate_failed(n)
        \/ cmd_migrate_init(n)
        \/ cmd_migrate_remove_pull(n)
        \/ cmd_migrate_remove_push(n)
        \/ cmd_migrate_final(n)
        \/ cmd_migrate_finally(n)
        \/ cmd_feedback_start(n)
        \/ cmd_feedback_done(n)
        \/ acquire_lock_pull(n)
        \/ acquire_lock_push(n)
        \/ release_lock_pull(n)
        \/ release_lock_push(n)
        \/ update_server_status_pull(n)
        \/ update_server_status_push(n)

Spec == Init /\ [][Next]_vars

(***************************************************************************)
(* GitHubSync on its own: callers on the three nodes, any spare record.    *)
(***************************************************************************)
InitSync ==
    /\ InitAgents
    /\ \E spare_id \in {None, "c"}, spare_status \in Statuses, holder \in Sources :
        /\ remote = Registry(spare_id, spare_status,
                             IF spare_status = "transferring" THEN holder ELSE None)
        /\ local = [n \in Nodes |-> remote]
    /\ gh \in {g \in [Nodes -> BOOLEAN] : \A n \in Spares : ~g[n]}
    /\ now = [day |-> 0, tod |-> 1]
    /\ lifecycle = [n \in Nodes |-> Lifecycle(n \in Sources, AddedDate[n])]
    /\ notifier = [n \in Nodes |-> ResendNotifier(FALSE, FALSE, FALSE)]
    /\ dpc = [n \in Nodes |-> "off"]
    /\ cf = [n \in Nodes |-> FALSE]

NextSync ==
    \E n \in Nodes :
        \/ sync_call(n)
        \/ acquire_lock_pull(n)
        \/ acquire_lock_push(n)
        \/ release_lock_pull(n)
        \/ release_lock_push(n)
        \/ update_server_status_pull(n)
        \/ update_server_status_push(n)

SpecSync == InitSync /\ [][NextSync]_vars

(***************************************************************************)
(* The daemon on node a.                                                   *)
(***************************************************************************)
\* the oldest lease start explored: MaxAge days ago
MaxAge == 16

InitDaemonCommon ==
    /\ InitAgents
    /\ \E spare_id \in {None, "c"} :
        /\ remote = Registry(spare_id, "idle", None)
        /\ local = [n \in Nodes |-> Registry(spare_id, "idle", None)]
    /\ \E available \in BOOLEAN : gh = [n \in Nodes |-> available]
    /\ \E available \in BOOLEAN : cf = [n \in Nodes |-> available]
    /\ \E tod \in {0, 1} : now = [day |-> 0, tod |-> tod]
    /\ \E enabled \in BOOLEAN :
        notifier = [n \in Nodes |-> ResendNotifier(enabled, TRUE, TRUE)]

\* `hermit-crab daemon` has just been started on a
InitDaemon ==
    /\ InitDaemonCommon
    /\ \E initialized \in BOOLEAN, added_date \in (0 - MaxAge)..0 :
        lifecycle = [n \in Nodes |->
                        IF n = "a" THEN Lifecycle(initialized, added_date)
                        ELSE Lifecycle(n \in Sources, AddedDate[n])]
    /\ dpc = [n \in Nodes |-> IF n = "a" THEN "loop" ELSE "off"]

NextDaemon ==
    \E n \in Nodes :
        \/ daemon_refresh(n)
        \/ daemon_check(n)
        \/ daemon_sleep(n)
        \/ daemon_recover(n)
        \/ daemon_interrupt(n)

SpecDaemon == InitDaemon /\ [][NextDaemon]_vars

(***************************************************************************)
(* The daemon's handover branch, entered at its call of cmd_migrate.       *)
(* cmd_check raises whenever migration is due (see cmd_check_kwargs), so   *)
(* the daemon of SpecDaemon never gets past its check; here the node is    *)
(* due and the loop stands at `success = self.cmd_migrate(auto=True)`.     *)
(***************************************************************************)
InitHandover ==
    /\ InitDaemonCommon
    /\ \E added_date \in (0 - MaxAge)..0 :
        /\ lifecycle = [n \in Nodes |->
                          IF n = "a" THEN Lifecycle(TRUE, added_date)
                          ELSE Lifecycle(n \in Sources, AddedDate[n])]
        /\ should_migrate("a")
    /\ dpc = [n \in Nodes |-> IF n = "a" THEN "migrate" ELSE "off"]

NextHandover ==
    \E n \in Nodes :
        \/ daemon_migrate(n)
        \/ daemon_migrated(n)
        \/ daemon_refresh(n)
        \/ daemon_check(n)
        \/ daemon_sleep(n)
        \/ daemon_recover(n)
        \/ daemon_interrupt(n)
        \/ cmd_migrate_locked(n)
        \/ cmd_migrate_transfer(n)
        \/ cmd_migrate_failed(n)
        \/ cmd_migrate_init(n)
        \/ cmd_migrate_remove_pull(n)
        \/ cmd_migrate_remove_push(n)
        \/ cmd_migrate_final(n)
        \/ cmd_migrate_finally(n)
        \/ acquire_lock_pull(n)
        \/ acquire_lock_push(n)
        \/ release_lock_pull(n)
        \/ release_lock_push(n)
        \/ update_server_status_pull(n)
        \/ update_server_status_push(n)

SpecHandover == InitHandover /\ [][NextHandover]_vars

(***************************************************************************)
(* One run of cmd_migrate on node a: any arguments, any state of the       *)
(* lifecycle file, of the spare's record and of the two remote services.   *)
(***************************************************************************)
InitMigrate ==
    /\ InitAgents
    /\ \E spare_id \in {None, "c"}, spare_status \in Statuses :
        /\ remote = Registry(spare_id, spare_status,
                             IF spare_status = "transferring" THEN "b" ELSE None)
        /\ local = [n \in Nodes |-> remote]
    /\ \E available \in BOOLEAN : gh = [n \in Nodes |-> n = "a" /\ available]
    /\ \E available \in BOOLEAN : cf = [n \in Nodes |-> n = "a" /\ available]
    /\ now = [day |-> 0, tod |-> 1]
    /\ \E initialized \in BOOLEAN, valid_date \in BOOLEAN :
        lifecycle = [n \in Nodes |->
                        IF n = "a"
                        THEN [Lifecycle(initialized, AddedDate[n])
                                 EXCEPT !.valid_date = valid_date]
                        ELSE Lifecycle(n \in Sources, AddedDate[n])]
    /\ notifier = [n \in Nodes |-> ResendNotifier(FALSE, FALSE, FALSE)]
    /\ dpc = [n \in Nodes |-> "off"]

NextMigrate ==
    \E n \in {"a"} :
        \/ cmd_migrate_start(n)
        \/ cmd_migrate_locked(n)
        \/ cmd_migrate_transfer(n)
        \/ cmd_migrate_failed(n)
        \/ cmd_migrate_init(n)
        \/ cmd_migrate_remove_pull(n)
        \/ cmd_migrate_remove_push(n)
        \/ cmd_migrate_final(n)
        \/ cmd_migrate_finally(n)
        \/ acquire_lock_pull(n)
        \/ acquire_lock_push(n)
        \/ release_lock_pull(n)
        \/ release_lock_push(n)
        \/ update_server_status_pull(n)
        \/ update_server_status_push(n)

SpecMigrate == InitMigrate /\ [][NextMigrate]_vars

(***************************************************************************)
(* GitHubSync called by a and b at once on a registry whose records all    *)
(* carry an id (their ip), so that every lookup finds its record.          *)
(***************************************************************************)
InitRace ==
    /\ InitAgents
    /\ \E spare_status \in {"idle", "active"} :
        LET R == Registry("c", spare_status, None)
        IN remote = [i \in DOMAIN R |-> [R[i] EXCEPT !.id = R[i].ip]]
    /\ local = [n \in Nodes |-> remote]
    /\ gh = [n \in Nodes |-> n \in Sources]
    /\ cf = [n \in Nodes |-> FALSE]
    /\ now = [day |-> 0, tod |-> 1]
    /\ lifecycle = [n \in Nodes |-> Lifecycle(n \in Sources, AddedDate[n])]
    /\ notifier = [n \in Nodes |-> ResendNotifier(FALSE, FALSE, FALSE)]
    /\ dpc = [n \in Nodes |-> "off"]

SpecRace == InitRace /\ [][NextSync]_vars

(***************************************************************************)
(* `status` on node a, for every age of its lease and both lease lengths.  *)
(***************************************************************************)
InitStatus ==
    /\ InitAgents
    /\ remote = Registry(None, "idle", None)
    /\ local = [n \in Nodes |-> remote]
    /\ gh = [n \in Nodes |-> FALSE]
    /\ cf = [n \in Nodes |-> FALSE]
    /\ \E tod \in {0, 1} : now = [day |-> 0, tod |-> tod]
    /\ \E initialized \in BOOLEAN, added_date \in (0 - MaxAge)..0,
          total_days \in {total_days_default, 2 * total_days_default} :
        lifecycle = [n \in Nodes |->
                        IF n = "a"
                        THEN [Lifecycle(initialized, added_date)
                                 EXCEPT !.total_days = total_days]
                        ELSE Lifecycle(n \in Sources, AddedDate[n])]
    /\ notifier = [n \in Nodes |-> ResendNotifier(FALSE, FALSE, FALSE)]
    /\ dpc = [n \in Nodes |-> "off"]

NextStatus ==
    \E n \in {"a"} :
        \/ cmd_status(n)
        \/ monitor_get_remaining_days(n)

SpecStatus == InitStatus /\ [][NextStatus]_vars

(***************************************************************************)
(* The selections on node a, over registries in which every record (a's    *)
(* own too) is idle or active and expired, short-lived or long-lived.      *)
(***************************************************************************)
\* lease starts that leave -1, 3, 5, 6 and 9 days of a 15-day lease today
LeaseStarts == {0 - 16, 0 - 12, 0 - 10, 0 - 9, 0 - 6}

InitSelect ==
    /\ InitAgents
    /\ \E status \in [Nodes -> {"idle", "active"}], added_date \in [Nodes -> LeaseStarts] :
        remote = [i \in 1..3 |->
                    LET ip == <<"a", "b", "c">>[i]
                    IN ServerRecord(ip, None, added_date[ip], status[ip])]
    /\ local = [n \in Nodes |-> remote]
    /\ gh = [n \in Nodes |-> FALSE]
    /\ cf = [n \in Nodes |-> FALSE]
    /\ now = [day |-> 0, tod |-> 0]
    /\ \E added_date \in {0 - 13, 0 - 11, 0 - 8} :
        lifecycle = [n \in Nodes |->
                        IF n = "a" THEN Lifecycle(TRUE, added_date)
                        ELSE Lifecycle(n \in Sources, AddedDate[n])]
    /\ notifier = [n \in Nodes |-> ResendNotifier(FALSE, FALSE, FALSE)]
    /\ dpc = [n \in Nodes |-> "off"]

NextSelect ==
    \E n \in {"a"} :
        \/ scanner_select_target(n)
        \/ scanner_select_longest(n)

SpecSelect == InitSelect /\ [][NextSelect]_vars

(***************************************************************************)
(* The local registry of node a from empty: add, remove, status updates   *)
(* and migrations in any order, without remote sync.                       *)
(***************************************************************************)
InitRegistry ==
    /\ InitAgents
    /\ remote = <<>>
    /\ local = [n \in Nodes |-> <<>>]
    /\ gh = [n \in Nodes |-> FALSE]
    /\ cf = [n \in Nodes |-> FALSE]
    /\ now = [day |-> 0, tod |-> 1]
    /\ lifecycle = [n \in Nodes |-> Lifecycle(n \in Sources, AddedDate[n])]
    /\ notifier = [n \in Nodes |-> ResendNotifier(FALSE, FALSE, FALSE)]
    /\ dpc = [n \in Nodes |-> "off"]

NextRegistry ==
    \E n \in {"a"} :
        \/ cmd_add_server(n)
        \/ cmd_remove_server(n)
        \/ scanner_set_status(n)
        \/ cmd_migrate_start(n)
        \/ cmd_migrate_transfer(n)
        \/ cmd_migrate_init(n)
        \/ cmd_migrate_final(n)
        \/ cmd_migrate_finally(n)

SpecRegistry == InitRegistry /\ [][NextRegistry]_vars

(***************************************************************************)
(* The lifecycle record of node a under init, update-lifecycle and         *)
(* migrate.                                                                *)
(***************************************************************************)
\* a record of an earlier migration
EarlierRecord(target_ip) ==
    [timestamp |-> Stamp, target_ip |-> target_ip, remaining_days |-> 3]

\* a is not initialized, or is with no history, or holds the record of an
\* earlier migration; b holds one too; a's cache may lack a's own record
InitLifecycle ==
    /\ InitAgents
    /\ \E spare_id \in {None, "c"} : remote = Registry(spare_id, "idle", None)
    /\ \E known \in BOOLEAN :
        local = [n \in Nodes |-> IF known THEN remote ELSE WithoutIp(remote, "a")]
    /\ \E available \in BOOLEAN : gh = [n \in Nodes |-> n = "a" /\ available]
    /\ cf = [n \in Nodes |-> FALSE]
    /\ now = [day |-> 0, tod |-> 1]
    /\ \E initialized \in BOOLEAN, migrated \in BOOLEAN :
        /\ migrated => initialized
        /\ lifecycle = [n \in Nodes |->
              CASE n = "a" -> [Lifecycle(initialized, AddedDate[n]) EXCEPT
                                 !.migration_history =
                                    IF migrated THEN <<EarlierRecord("b")>> ELSE <<>>]
                [] n = "b" -> [Lifecycle(TRUE, AddedDate[n]) EXCEPT
                                 !.migration_history = <<EarlierRecord("a")>>]
                [] OTHER  -> Lifecycle(FALSE, AddedDate[n])]
    /\ notifier = [n \in Nodes |-> ResendNotifier(FALSE, FALSE, FALSE)]
    /\ dpc = [n \in Nodes |-> "off"]

NextLifecycle ==
    \E n \in {"a"} :
        \/ cmd_init(n)
        \/ cmd_update_lifecycle(n)
        \/ cmd_migrate_start(n)
        \/ cmd_migrate_locked(n)
        \/ cmd_migrate_transfer(n)
        \/ cmd_migrate_failed(n)
        \/ cmd_migrate_init(n)
        \/ cmd_migrate_remove_pull(n)
        \/ cmd_migrate_remove_push(n)
        \/ cmd_migrate_final(n)
        \/ cmd_migrate_finally(n)
        \/ acquire_lock_pull(n)
        \/ acquire_lock_push(n)
        \/ release_lock_pull(n)
        \/ release_lock_push(n)
        \/ update_server_status_pull(n)
        \/ update_server_status_push(n)

SpecLifecycle == InitLifecycle /\ [][NextLifecycle]_vars

(***************************************************************************)
(* Calls of CloudFlareAPI.update_dns_record on node a.                     *)
(***************************************************************************)
InitDns ==
    /\ InitAgents
    /\ remote = Registry(None, "idle", None)
    /\ local = [n \in Nodes |-> remote]
    /\ gh = [n \in Nodes |-> FALSE]
    /\ \E available \in BOOLEAN : cf = [n \in Nodes |-> n = "a" /\ available]
    /\ now = [day |-> 0, tod |-> 1]
    /\ lifecycle = [n \in Nodes |-> Lifecycle(n \in Sources, AddedDate[n])]
    /\ notifier = [n \in Nodes |-> ResendNotifier(FALSE, FALSE, FALSE)]
    /\ dpc = [n \in Nodes |-> "off"]

NextDns == \E n \in {"a"} : cloudflare_update_dns_record(n)

SpecDns == InitDns /\ [][NextDns]_vars

(***************************************************************************)
(* Password lookups on node a.                                             *)
(***************************************************************************)
NextPassword == \E n \in {"a"} : resolve_ssh_password(n)

SpecPassword == InitDns /\ [][NextPassword]_vars

(***************************************************************************)
(* One perform_migration on node a.                                        *)
(***************************************************************************)
NextTransfer ==
    \E n \in {"a"} :
        \/ perform_migration(n)
        \/ test_ssh_connection(n)
        \/ setup_ssh_key(n)
        \/ backup_critical_files(n)
        \/ rsync_system_files(n)
        \/ setup_ssh_key_again(n)
        \/ restore_network_config(n)
        \/ tar_stream_transfer(n)

SpecTransfer == InitDns /\ [][NextTransfer]_vars

(***************************************************************************)
(* One initialize_target_server on node a; every step it starts ends.      *)
(***************************************************************************)
NextInitialize ==
    \E n \in {"a"} :
        \/ initialize_target_server(n)
        \/ initializer_step(n)
        \/ wait_for_target_online(n)

SpecInitialize == InitDns /\ [][NextInitialize]_vars /\ WF_vars(NextInitialize)

(***************************************************************************)
(* `add` and `remove` typed on node a while node b makes one GitHubSync    *)
(* call, both with remote sync and on a registry whose records carry ids.  *)
(***************************************************************************)
NextShared ==
    \/ \E n \in {"a"} :
        \/ cmd_add_server(n)
        \/ cmd_remove_server(n)
    \/ \E n \in {"b"} :
        \/ sync_call(n)
        \/ acquire_lock_pull(n)
        \/ acquire_lock_push(n)
        \/ release_lock_pull(n)
        \/ release_lock_push(n)
        \/ update_server_status_pull(n)
        \/ update_server_status_push(n)

SpecShared == InitRace /\ [][NextShared]_vars

(***************************************************************************)
(* Properties.                                                             *)
(***************************************************************************)
\* status of the record with this ip, None when the registry has none
StatusOf(servers, ip) ==
    IF FindByIp(servers, ip) = 0 THEN None ELSE servers[FindByIp(servers, ip)].status

\* C1: two agents that both went through acquire_lock are never in the
\* data-transfer phase toward the same target at the same time
C1_MutualExclusion ==
    \A m, n \in Nodes :
        (m # n /\ gh[m] /\ gh[n] /\ pc[m] = "transfer" /\ pc[n] = "transfer")
            => mig[m].target_ip # mig[n].target_ip

\* the status changes the state machine allows
AllowedStatusChanges ==
    { <<"idle", "transferring">>, <<"transferring", "active">>,
      <<"transferring", "idle">> }

StatusChangesAllowed(old, new) ==
    \A i \in DOMAIN old, j \in DOMAIN new :
        (old[i].ip = new[j].ip /\ old[i].status # new[j].status)
            => <<old[i].status, new[j].status>> \in AllowedStatusChanges

\* C2: every status change of a record, in the remote registry or in the
\* local registry of a node without remote sync, is idle->transferring,
\* transferring->active or transferring->idle
C2_StatusStateMachine ==
    [][ /\ StatusChangesAllowed(remote, remote')
        /\ \A n \in Nodes : ~gh[n] => StatusChangesAllowed(local[n], local'[n]) ]_vars

\* C3: when cmd_migrate is about to return success, the authoritative
\* registry holds the target as active and no record of the source
C3_RegistryAfterSuccess ==
    \A n \in Nodes :
        pc[n] = "final" =>
            LET registry == IF gh[n] THEN remote ELSE local[n]
            IN /\ StatusOf(registry, mig[n].target_ip) = "active"
               /\ FindByIp(registry, n) = 0

\* C4: when cmd_migrate returns after a failed transfer, the target is idle
\* again: in the local registry without remote sync, in the remote one with it
C4_TargetIdleAfterFailedTransfer ==
    [][ \A n \in Nodes :
          /\ (~gh[n] /\ pc[n] = "transfer" /\ pc'[n] = "finally"
                /\ mig'[n].transfer = "failed")
                => StatusOf(local'[n], mig[n].target_ip) = "idle"
          /\ (pc[n] = "m_failed" /\ pc'[n] = "finally" /\ mig[n].transfer = "failed")
                => StatusOf(remote', mig[n].target_ip) = "idle" ]_vars

\* C5: a daemon iteration on an initialized node whose migration is due goes
\* from cmd_check to the call of cmd_migrate, whatever the notifier's state
C5_DueMigrationIsInvoked ==
    [][ \A n \in Nodes :
          (/\ dpc[n] = "check"
           /\ lifecycle[n].initialized /\ should_migrate(n)
           /\ dpc'[n] \notin {"check", "interrupted"})
                => dpc'[n] = "migrate" ]_vars

C7_DaemonKeepsLooping ==
    [][ \A n \in Nodes :
          /\ (dpc'[n] = "exited" /\ dpc[n] # "exited")
                => (dpc[n] = "migrating" /\ result[n] = "success")
          /\ (dpc[n] = "migrating" /\ result[n] = "failure" /\ dpc'[n] # dpc[n])
                => dpc'[n] = "sleep"
          /\ (dpc[n] \in {"sleep", "recover"} /\ dpc'[n] # dpc[n])
                => dpc'[n] \in {"loop", "interrupted"} ]_vars

\* a second iteration is under way after a failed cmd_migrate and, in the
\* iteration after it, an exception out of cmd_check
C7_Witness ==
    \E n \in Nodes :
        /\ dpc[n] = "check" /\ iter[n] = 2
        /\ result[n] = "failure"
        /\ cmd_check(n) = "raise"

\* C8: acquire_lock(ip, holder) on a record with that ip and status idle
\* edits it to transferring with the holder and a time stamp, every other
\* record unchanged, and its push makes that the remote registry and
\* returns success
C8_AcquireIdleByIp ==
    [][ \A n \in Nodes :
          /\ (/\ pc[n] = "acq_pull" /\ pc'[n] # "acq_pull" /\ faults' = faults
              /\ StatusOf(remote, frame[n].server_id) = "idle")
                => /\ pc'[n] = "acq_push"
                   /\ nodes_data'[n] =
                        with_lock(remote, FindByIp(remote, frame[n].server_id), frame[n].arg)
          /\ (pc[n] = "acq_push" /\ pc'[n] # "acq_push" /\ faults' = faults)
                => (rv'[n] /\ remote' = nodes_data[n]) ]_vars

\* C9: acquire_lock on a server whose remote record is transferring returns
\* failure straight after its pull, without a push: the remote registry is
\* left as it was
C9_AcquireHeldFails ==
    [][ \A n \in Nodes :
          (/\ pc[n] = "acq_pull" /\ pc'[n] # "acq_pull"
           /\ \/ StatusOf(remote, frame[n].server_id) = "transferring"
              \/ /\ FindServer(remote, frame[n].server_id) # 0
                 /\ remote[FindServer(remote, frame[n].server_id)].status = "transferring")
                => /\ pc'[n] = frame[n].cont
                   /\ rv'[n] = FALSE
                   /\ remote' = remote ]_vars

\* the only call made so far was an acquire_lock that found its server
\* locked by another holder, and it has returned failure
C9_Witness ==
    \E n \in Nodes :
        LET i == FindServer(remote, frame[n].server_id)
        IN /\ pc[n] = "idle" /\ frame[n].entry = "acq_pull" /\ rv[n] = FALSE
           /\ faults = 0 /\ \A m \in Nodes \ {n} : runs[m] = 0
           /\ i # 0
           /\ remote[i].status = "transferring"
           /\ remote[i].lock_holder \notin {None, n}

\* C10: release_lock(ip, newStatus) on a registry that has a record with
\* that ip sets the record's status, clears lock_holder and lock_time,
\* changes no other record, and returns success when its push succeeds
C10_ReleaseByIp ==
    [][ \A n \in Nodes :
          /\ (/\ pc[n] = "rel_pull" /\ pc'[n] # "rel_pull" /\ faults' = faults
              /\ FindByIp(remote, frame[n].server_id) # 0)
                => /\ pc'[n] = "rel_push"
                   /\ nodes_data'[n] =
                        without_lock(remote, FindByIp(remote, frame[n].server_id), frame[n].arg)
          /\ (pc[n] = "rel_push" /\ pc'[n] # "rel_push" /\ faults' = faults)
                => (rv'[n] /\ remote' = nodes_data[n]) ]_vars

\* C11: update_server_status(ip, status) finds the record by its ip: when
\* the registry has one and the pull succeeds it edits that record's status
\* and heartbeat and goes on to push, and a successful push makes the edit
\* the remote registry and returns success; when no record has the ip, or
\* the pull or the push fails, it returns failure and the remote registry
\* stays as it was
C11_UpdateStatusByIp ==
    [][ \A n \in Nodes :
          /\ (/\ pc[n] = "upd_pull" /\ pc'[n] # "upd_pull" /\ faults' = faults
              /\ FindByIp(remote, frame[n].server_id) # 0)
                => /\ pc'[n] = "upd_push"
                   /\ nodes_data'[n] =
                        with_status(remote, FindByIp(remote, frame[n].server_id), frame[n].arg)
          /\ (/\ pc[n] = "upd_pull" /\ pc'[n] # "upd_pull"
              /\ (faults' # faults \/ FindByIp(remote, frame[n].server_id) = 0))
                => (pc'[n] = frame[n].cont /\ ~rv'[n] /\ remote' = remote)
          /\ (pc[n] = "upd_push" /\ pc'[n] # "upd_push")
                => IF faults' = faults
                   THEN rv'[n] /\ remote' = nodes_data[n]
                   ELSE ~rv'[n] /\ remote' = remote ]_vars

\* C12: a push that succeeds makes the remote registry the pusher's own
\* copy, edited from what it pulled, whatever other agents have pushed
\* since that pull: the last writer wins and an update pushed in between is
\* lost
C12_LastWriteWins ==
    [][ \A n \in Nodes :
          (/\ pc[n] \in {"acq_push", "rel_push", "upd_push"}
           /\ pc'[n] # pc[n] /\ faults' = faults)
                => (rv'[n] /\ remote' = nodes_data[n]) ]_vars

\* a and b have each locked a different server, both calls returned
\* success without any fault, and the remote registry does not show one of
\* the two locks
C12_Witness ==
    /\ faults = 0
    /\ \A n \in Sources :
        /\ pc[n] = "idle" /\ frame[n].entry = "acq_pull" /\ rv[n]
        /\ frame[n].arg = n
    /\ frame["a"].server_id # frame["b"].server_id
    /\ \E n \in Sources :
        /\ StatusOf(remote, frame[n].server_id) # "transferring"
        /\ \A i \in DOMAIN remote : remote[i].lock_holder # n

\* C13: in the remote registry and in every local cache a record carries
\* lock_holder or lock_time only while its status is transferring
C13_LockFieldsOnlyWhileTransferring ==
    \A registry \in {remote} \cup {local[n] : n \in Nodes} :
        \A i \in DOMAIN registry :
            (registry[i].lock_holder # None \/ registry[i].lock_time # None)
                => registry[i].status = "transferring"

\* the effect e is in the log of the running command
Logged(n, e) == \E i \in DOMAIN effects[n] : effects[n][i] = e

\* C14: a run of cmd_migrate changes the node's migration history in one
\* step only, the one in which perform_migration has succeeded and the
\* Initializer has not started yet, and that step appends exactly one
\* record, with the target's ip and the source's remaining days; every other
\* step of the run (a failed transfer, an early stop, the initialization
\* whether it fails or not) leaves the history as it is
C14_OneRecordAfterTransfer ==
    [][ \A n \in Nodes :
          (pc[n] # "idle" \/ pc'[n] # "idle") =>
            IF pc[n] = "transfer" /\ pc'[n] = "init"
            THEN lifecycle'[n].migration_history =
                    Append(lifecycle[n].migration_history,
                           [timestamp |-> Stamp, target_ip |-> mig[n].target_ip,
                            remaining_days |-> get_remaining_days(n)])
            ELSE lifecycle'[n].migration_history = lifecycle[n].migration_history ]_vars

\* the initialization has failed and the run is over: the one record of the
\* transfer is in the history
C14_Witness ==
    \E n \in Nodes :
        /\ pc[n] = "finally" /\ Logged(n, "error_init")
        /\ Len(lifecycle[n].migration_history) = 1
        /\ lifecycle[n].migration_history[1].target_ip = "c"
        /\ lifecycle[n].migration_history[1].remaining_days =
              calculate_days_remaining(AddedDate[n], total_days_default)

\* what the running command has logged after its first e
LoggedAfter(n, e) ==
    LET k == CHOOSE i \in DOMAIN effects[n] :
                 effects[n][i] = e /\ \A j \in 1..(i - 1) : effects[n][j] # e
    IN SubSeq(effects[n], k + 1, Len(effects[n]))

\* C15: a run whose initialize_target_server has failed still does, in
\* this order, the DNS cutover (when CloudFlare is available), the registry
\* status update, the final re-sync and the success notification, and it
\* returns success
C15_InitFailureContinues ==
    \A n \in Nodes :
        (pc[n] = "finally" /\ Logged(n, "error_init")) =>
            LET rest == LoggedAfter(n, "error_init")
                dns == IF cf[n] THEN 2 ELSE 0
            IN /\ result[n] = "success"
               /\ Len(rest) >= dns + 3
               /\ cf[n] => /\ rest[1] = "update_domain_for_migration"
                           /\ rest[2] = "update_dns_record"
               /\ rest[dns + 1] = IF gh[n] THEN "update_server_status"
                                  ELSE "scanner_update_server_status"
               /\ rest[Len(rest) - 1] = "sync_final_updates"
               /\ rest[Len(rest)] = "notify_migration_success"

\* a run with CloudFlare and GitHub available whose initialization failed
\* has reached its end
C15_Witness ==
    \E n \in Nodes :
        /\ pc[n] = "finally" /\ Logged(n, "error_init")
        /\ cf[n] /\ gh[n]
        /\ result[n] = "success"

\* C16: a run of cmd_migrate in which an exception was raised ends inside
\* cmd_migrate: the failure notification has been attempted, the lock
\* release has been attempted when GitHub is available, and the command
\* returns failure
C16_ExceptionsHandled ==
    \A n \in Nodes :
        (pc[n] = "finally" /\ Logged(n, "exception")) =>
            /\ result[n] = "failure"
            /\ Logged(n, "notify_migration_failed")
            /\ gh[n] => Logged(n, "release_lock")

\* C17: a run of cmd_migrate that stops at the usage error (no target given
\* and auto not set) has made no call at all: no public-ip lookup, no pull
\* of the remote registry, no lock acquisition, no notification, no
\* Migrator call
C17_UsageErrorWithoutCalls ==
    \A n \in Nodes :
        (pc[n] = "finally" /\ Logged(n, "error_usage")) =>
            /\ effects[n] = <<"error_usage">>
            /\ result[n] = "failure"

\* how often the running command has logged e
Count(n, e) == Cardinality({i \in DOMAIN effects[n] : effects[n][i] = e})

\* C18: a run of cmd_migrate with auto set that finds no candidate returns
\* failure after exactly one "no available servers" notification attempt,
\* without acquiring a lock, changing a server's status or calling the
\* Migrator: the remote registry is as it was and the local one is at most
\* refreshed from it
C18_NoCandidateNotifiesOnce ==
    [][ \A n \in Nodes :
          (pc'[n] = "finally" /\ pc[n] # "finally" /\ Logged(n, "error_no_target")') =>
            /\ result'[n] = "failure"
            /\ Count(n, "notify_no_available_servers")' = 1
            /\ \A e \in {"acquire_lock", "scanner_update_server_status",
                         "update_server_status", "perform_migration"} : ~Logged(n, e)'
            /\ remote' = remote
            /\ local'[n] \in {local[n], remote} ]_vars

\* migrate --auto has stopped for want of a candidate, after a pull of the
\* remote registry in which the spare is not idle
C18_Witness ==
    \E n \in Nodes :
        /\ pc[n] = "finally" /\ Logged(n, "error_no_target")
        /\ Logged(n, "pull_nodes") /\ faults = 0
        /\ StatusOf(remote, "c") # "idle"

\* C19: the log file of a migration run is attached for the run only: it
\* is on the logger until the run reaches its end, and once cmd_migrate has
\* been left, by a return or by an exception, the logger has the sinks it
\* had before
C19_LogSinkScoped ==
    \A n \in Nodes :
        /\ pc[n] = "idle" => handlers[n] = 0
        /\ pc[n] # "idle" => handlers[n] = 1

\* a run that ended with an exception raised inside the except block is
\* over
C19_Witness ==
    \E n \in Nodes :
        /\ pc[n] = "idle" /\ runs[n] > 0
        /\ result[n] = "raised"
        /\ handlers[n] = 0

\* C20 as stated: for an initialized record should_migrate is true exactly
\* when the remaining days are below migrate_threshold_days, and for an
\* uninitialized node it is false
C20_BelowThreshold ==
    \A n \in Nodes :
        IF lifecycle[n].initialized
        THEN should_migrate(n) <=> (get_remaining_days(n) < migrate_threshold_days)
        ELSE ~should_migrate(n)

\* C20: should_migrate is true exactly when the record is initialized and
\* its remaining days are at least 0 and below migrate_threshold_days; it
\* is false for an expired record (negative remaining days) and for an
\* uninitialized node
C20_WithinWindow ==
    \A n \in Nodes :
        should_migrate(n) <=>
            /\ lifecycle[n].initialized
            /\ 0 <= get_remaining_days(n)
            /\ get_remaining_days(n) < migrate_threshold_days

\* the daemon has checked an initialized node whose lease has run out,
\* found no migration due and gone to sleep
C20_Witness ==
    \E n \in Nodes :
        /\ dpc[n] = "sleep" /\ iter[n] > 0
        /\ lifecycle[n].initialized /\ lifecycle[n].valid_date
        /\ get_remaining_days(n) < 0
        /\ ~should_migrate(n)

\* C21: the status shown is the first match of: NOT_INITIALIZED without a
\* record, EXPIRED for negative remaining days, CRITICAL when should_migrate
\* is true, WARNING below 10 remaining days, HEALTHY otherwise; with the
\* threshold of 5, 4 days are CRITICAL, 6 days WARNING and 20 days HEALTHY
C21_StatusByPriority ==
    \A n \in Nodes :
        runs[n] > 0 =>
            LET remaining == get_remaining_days(n)
            IN /\ result[n] =
                    CASE ~lifecycle[n].initialized -> "NOT_INITIALIZED"
                      [] lifecycle[n].initialized /\ remaining < 0 -> "EXPIRED"
                      [] lifecycle[n].initialized /\ remaining >= 0
                            /\ should_migrate(n) -> "CRITICAL"
                      [] lifecycle[n].initialized /\ remaining >= 0
                            /\ ~should_migrate(n) /\ remaining < 10 -> "WARNING"
                      [] OTHER -> "HEALTHY"
               /\ (lifecycle[n].initialized /\ remaining = 4) => result[n] = "CRITICAL"
               /\ (lifecycle[n].initialized /\ remaining = 6) => result[n] = "WARNING"
               /\ (lifecycle[n].initialized /\ remaining = 20) => result[n] = "HEALTHY"

\* status has been shown on a node with 4 remaining days
C21_Witness ==
    \E n \in Nodes :
        /\ runs[n] > 0 /\ lifecycle[n].initialized
        /\ get_remaining_days(n) = 4
        /\ result[n] = "CRITICAL"

\* status has been shown on a node with 20 remaining days
C21_WitnessHealthy ==
    \E n \in Nodes :
        /\ runs[n] > 0 /\ lifecycle[n].initialized
        /\ get_remaining_days(n) = 20
        /\ result[n] = "HEALTHY"

\* the records of node n's registry that are idle, not expired and not n's
Candidates(n) ==
    {i \in DOMAIN local[n] :
        /\ local[n][i].status = "idle"
        /\ remaining_days(local[n][i]) >= 0
        /\ local[n][i].ip # n}

\* ip is the ip of a longest-lived record among those at the indices S
LongestOf(n, S, ip) ==
    \E i \in S :
        /\ local[n][i].ip = ip
        /\ \A j \in S : remaining_days(local[n][j]) <= remaining_days(local[n][i])

C23_AvailableAreIdleLiveOthers ==
    \A n \in Nodes :
        /\ \A i \in DOMAIN get_available_servers(local[n], n) :
              LET server == get_available_servers(local[n], n)[i]
              IN /\ server.status = "idle"
                 /\ remaining_days(server) >= 0
                 /\ server.ip # n
        /\ (/\ frame[n].entry \in {"select_target_server",
                                    "select_longest_remaining_server"}
            /\ rv[n] # None)
              => \E i \in DOMAIN local[n] :
                    /\ local[n][i].ip = rv[n]
                    /\ local[n][i].status = "idle"
                    /\ remaining_days(local[n][i]) >= 0
                    /\ rv[n] # n

\* the forced selection has returned a target although the node's own
\* record is idle and outlives every other record
C23_Witness ==
    \E n \in Nodes :
        /\ frame[n].entry = "select_longest_remaining_server"
        /\ rv[n] \notin {None, n}
        /\ local[n][FindByIp(local[n], n)].status = "idle"
        /\ \A i \in DOMAIN local[n] :
              local[n][i].ip # n =>
                 remaining_days(local[n][i]) <
                    remaining_days(local[n][FindByIp(local[n], n)])

\* no two records of the list share an ip
UniqueIps(servers) ==
    \A i, j \in DOMAIN servers : servers[i].ip = servers[j].ip => i = j

\* C24: from an empty registry, whatever add, remove, update-status and
\* migrate operations are run, no two records of the local or of the remote
\* registry share an ip; and an add for an ip that is present returns
\* failure and leaves both registries as they are
C24_OneRecordPerIp ==
    [][ \A n \in Nodes :
          /\ UniqueIps(local'[n])
          /\ UniqueIps(remote')
          /\ (/\ pc[n] = "idle" /\ pc'[n] = "idle"
              /\ frame'[n].entry = "add_server"
              /\ FindByIp(local[n], frame'[n].server_id) # 0)
                => /\ result'[n] = "failure"
                   /\ local'[n] = local[n]
                   /\ remote' = remote ]_vars

\* after a migration, an add for an ip that is in the registry has failed
C24_Witness ==
    \E n \in Nodes :
        /\ pc[n] = "idle" /\ runs[n] > 0
        /\ frame[n].entry = "add_server"
        /\ result[n] = "failure"
        /\ FindByIp(local[n], frame[n].server_id) # 0
        /\ Len(local[n]) > 1

\* a step of node n in which cmd_feedback begins: it returns at once or
\* goes on to GitHubSync.update_server_status
FeedbackBegins(n) ==
    /\ pc[n] = "idle"
    /\ runs'[n] = runs[n] + 1
    /\ pc'[n] = "idle" \/ frame'[n].cont = "fb_done"

\* C25: cmd_feedback consumes the migration flag only on success: with no
\* flag it returns failure and touches nothing; when the signal to the
\* source fails the flag stays and no registry changes; when the signal
\* succeeds the flag is deleted and, with remote sync available and working,
\* this node's own entry of the remote registry is `active` when
\* update_server_status returns, and the command returns success
C25_FeedbackConsumesFlag ==
    [][ \A n \in Nodes :
          /\ (FeedbackBegins(n) /\ ~flag[n])
                => /\ result'[n] = "failure"
                   /\ pc'[n] = "idle"
                   /\ remote' = remote /\ local' = local
          /\ (FeedbackBegins(n) /\ result'[n] = "failure")
                => /\ flag' = flag
                   /\ pc'[n] = "idle"
                   /\ remote' = remote /\ local' = local
          /\ (FeedbackBegins(n) /\ result'[n] # "failure")
                => /\ flag[n] /\ ~flag'[n]
                   /\ gh[n] <=> pc'[n] = "upd_pull"
          /\ (/\ pc[n] # "fb_done" /\ pc'[n] = "fb_done"
              /\ faults' = 0
              /\ FindByIp(remote', n) # 0)
                => StatusOf(remote', n) = "active"
          /\ (pc[n] = "fb_done" /\ pc'[n] = "idle")
                => result'[n] = "success" ]_vars

\* the run of cmd_migrate on n has gone through every step without a
\* failure, the initialization and the final re-sync included
CompletedCleanly(n) ==
    /\ pc[n] = "finally"
    /\ result[n] = "success"
    /\ Logged(n, "sync_final_updates")
    /\ ~Logged(n, "error_init")
    /\ faults = 0

\* C26: after cmd_migrate has completed successfully, final re-sync
\* included, the lifecycle record on the target carries the target's own
\* added_date, written by the remote `init` on the day of the migration,
\* and not the source's
C26_TargetKeepsFreshLease ==
    \A n \in Nodes :
        CompletedCleanly(n)
            => /\ lifecycle[mig[n].target_ip].initialized
               /\ lifecycle[mig[n].target_ip].added_date = now.day
               /\ lifecycle[mig[n].target_ip].added_date # lifecycle[n].added_date

\* C27: after cmd_migrate has completed successfully with a successful
\* initialization, the migration flag written on the target is still
\* there, and no step other than a successful feedback on the target
\* deletes a flag
C27_FlagAwaitsFeedback ==
    [][ \A n \in Nodes :
          /\ CompletedCleanly(n)' => flag'[mig'[n].target_ip]
          /\ (flag[n] /\ ~flag'[n])
                => (FeedbackBegins(n) /\ result'[n] # "failure") ]_vars

\* s is the beginning of t
IsPrefix(s, t) == Len(s) <= Len(t) /\ SubSeq(t, 1, Len(s)) = s

\* in this step n is the target that a running cmd_migrate writes to
TargetOfRun(n) == \E m \in Nodes : mig[m].target_ip = n \/ mig'[m].target_ip = n

\* a step of node n that is its `init` command
InitStep(n) ==
    /\ pc[n] = "idle" /\ pc'[n] = "idle"
    /\ runs'[n] = runs[n]
    /\ frame'[n].entry = "init"

\* the step keeps the history of n's lifecycle record or appends to it, and
\* a step that appends changes nothing else of the record
AppendsOnly(n) ==
    /\ IsPrefix(lifecycle[n].migration_history, lifecycle'[n].migration_history)
    /\ lifecycle'[n].migration_history # lifecycle[n].migration_history
          => /\ lifecycle'[n].added_date = lifecycle[n].added_date
             /\ lifecycle'[n].total_days = lifecycle[n].total_days

\* C28 as stated: across init, add_migration_record and migrate on a node
\* the entries of its migration_history are never removed, reordered or
\* changed, and add_migration_record changes neither added_date nor
\* total_days
C28_HistoryAppendOnly ==
    [][ \A n \in Nodes : ~TargetOfRun(n) => AppendsOnly(n) ]_vars

\* C28: across add_migration_record and migrate on a node the entries of its
\* migration_history are never removed, reordered or changed, and a step
\* that appends one changes neither added_date nor total_days; `init`
\* writes a new record, added_date today and an empty history, whatever
\* the old one held
C28_AppendOnlyUntilInit ==
    [][ \A n \in Nodes :
          ~TargetOfRun(n)
             => IF InitStep(n)
                THEN lifecycle'[n] = Lifecycle(TRUE, now.day)
                ELSE /\ AppendsOnly(n)
                     /\ Len(lifecycle'[n].migration_history)
                           <= Len(lifecycle[n].migration_history) + 1 ]_vars

\* a migrate has appended its record after the one a held already
C28_Witness ==
    \E n \in Nodes :
        /\ pc[n] = "init"
        /\ Len(lifecycle[n].migration_history) = 2
        /\ lifecycle[n].migration_history[1] = EarlierRecord("b")
        /\ lifecycle[n].migration_history[2].target_ip = mig[n].target_ip
        /\ lifecycle[n].added_date = AddedDate[n]

\* a step of node n that is its `update-lifecycle` command
UpdateLifecycleStep(n) ==
    /\ pc[n] = "idle" /\ pc'[n] = "idle"
    /\ runs'[n] = runs[n]
    /\ frame'[n].entry = "update_lifecycle"

\* C29: `update-lifecycle` on a node whose own record is in the registry
\* completes and leaves a lifecycle record with added_date today and with
\* the migration_history of the predecessor whose payload decoded, or with
\* an empty history when no payload decoded
C29_UpdateLifecycleCarriesHistory ==
    [][ \A n \in Nodes :
          (UpdateLifecycleStep(n) /\ FindByIp(local'[n], n) # 0)
             => /\ result'[n] = "success"
                /\ lifecycle'[n].initialized
                /\ lifecycle'[n].added_date = now.day
                /\ lifecycle'[n].migration_history =
                      IF frame'[n].server_id = None THEN <<>>
                      ELSE lifecycle[frame'[n].server_id].migration_history ]_vars

\* node n runs with remote sync, DNS and notifications all unavailable
Standalone(n) == ~gh[n] /\ ~cf[n] /\ ~is_available(n)

\* C30: with remote sync, DNS and notifications all unavailable, a run of
\* cmd_migrate with a valid target and a password marks the target
\* `transferring` in the local registry, and once the transfer has
\* succeeded it never fails: it marks the target `active`, removes the
\* source's own entry from the local registry and returns success
C30_WorksWithoutIntegrations ==
    [][ \A n \in Nodes :
          Standalone(n)
            => /\ (pc[n] = "idle" /\ pc'[n] = "transfer")
                     => /\ mig'[n].target_ip # None
                        /\ StatusOf(local'[n], mig'[n].target_ip) = "transferring"
               /\ (pc[n] = "transfer" /\ mig'[n].transfer = "ok")
                     => /\ pc'[n] = "init"
                        /\ StatusOf(local'[n], mig[n].target_ip) = "transferring"
               /\ pc[n] = "init"
                     => /\ pc'[n] = "final"
                        /\ result'[n] = "running"
                        /\ StatusOf(local'[n], mig[n].target_ip) = "active"
                        /\ FindByIp(local'[n], n) = 0
               /\ pc[n] = "final"
                     => /\ pc'[n] = "finally"
                        /\ result'[n] = "success"
                        /\ local'[n] = local[n]
               /\ (pc[n] = "finally" /\ mig[n].transfer = "ok")
                     => result[n] = "success" ]_vars

\* such a run has returned success: the target is active and the source is
\* gone from the local registry
C30_Witness ==
    \E n \in Nodes :
        /\ Standalone(n)
        /\ pc[n] = "finally"
        /\ result[n] = "success"
        /\ mig[n].transfer = "ok"
        /\ Count(n, "scanner_update_server_status") = 2
        /\ StatusOf(local[n], mig[n].target_ip) = "active"
        /\ FindByIp(local[n], n) = 0

\* a span given in half days, in whole days truncated toward zero
TruncatedDays(half_days) ==
    IF half_days >= 0 THEN half_days \div 2 ELSE 0 - ((0 - half_days) \div 2)

\* C31: calculate_days_remaining returns total_days for a lease that began
\* today, at midnight and later in the day alike, and in general the days
\* from now to added_date + total_days, truncated toward zero
C31_DaysRemaining ==
    \A n \in Nodes :
        (/\ frame[n].entry = "get_remaining_days"
         /\ lifecycle[n].initialized /\ lifecycle[n].valid_date)
            => /\ lifecycle[n].added_date = now.day
                    => frame[n].arg = lifecycle[n].total_days
               /\ frame[n].arg =
                    TruncatedDays(2 * (lifecycle[n].added_date + lifecycle[n].total_days
                                          - now.day) - now.tod)

\* the content of the first A record of that name, None when there is none
ContentOf(records, subdomain) ==
    IF get_dns_record(records, subdomain, TRUE) = 0 THEN None
    ELSE records[get_dns_record(records, subdomain, TRUE)].content

\* a step in which node n, with CloudFlare available, calls update_dns_record
\* and every request of the call is answered well
DnsUpdateStep(n) ==
    /\ cf[n]
    /\ pc[n] = "idle" /\ pc'[n] = "idle"
    /\ frame'[n].entry = "update_dns_record"
    /\ faults' = faults

\* C32: update_dns_record is idempotent: a call whose requests are answered
\* returns success and leaves the record with the given IP, and a call that
\* follows a successful one with the same subdomain and IP and finds the
\* record with that IP returns success after its GET alone, with neither a
\* POST nor a PUT and with the zone as it was
C32_UpdateDnsIdempotent ==
    [][ \A n \in Nodes :
          DnsUpdateStep(n)
            => /\ rv'[n]
               /\ ContentOf(zone, frame'[n].server_id) \in {None, frame'[n].arg}
                    => ContentOf(zone', frame'[n].server_id) = frame'[n].arg
               /\ (/\ frame[n] = frame'[n]
                   /\ rv[n]
                   /\ ContentOf(zone, frame[n].server_id) = frame[n].arg)
                     => /\ effects'[n] = <<"GET">>
                        /\ zone' = zone ]_vars

\* the second of two equal calls has returned: it has sent its GET only
C32_Witness ==
    \E n \in Nodes :
        /\ cf[n]
        /\ frame[n].entry = "update_dns_record"
        /\ rv[n]
        /\ effects[n] = <<"GET">>
        /\ faults = 0
        /\ ContentOf(zone, frame[n].server_id) = frame[n].arg

\* the value is written as mappings: it holds a ":" or a "|"
InMappingSyntax(value) == find(value, ":") # 0 \/ find(value, "|") # 0

\* C33: get_ssh_password(host) returns the per-host map's entry for host
\* when there is one; otherwise the generic password when that is a plain
\* password; otherwise, the generic value being written as mappings, its
\* entry for host, and no password when it has none
C33_PasswordResolution ==
    \A n \in Nodes :
        frame[n].entry = "get_ssh_password" =>
            LET host == frame[n].server_id
                call == frame[n].arg
                mapped == lookup(split(call.password_map, "|"), host)
            IN call.password =
                 IF mapped # <<>> THEN mapped
                 ELSE IF call.password_env = <<>> THEN <<>>
                 ELSE IF ~InMappingSyntax(call.password_env)
                 THEN <<call.password_env>>
                 ELSE lookup(split(call.password_env, "|"), host)

\* C34: the daemon comes back to the head of its loop only out of the sleep
\* of the check interval, also after an iteration that ended in an exception
C34_IntervalSleepBetweenChecks ==
    [][ \A n \in Nodes :
          (dpc[n] # "loop" /\ dpc'[n] = "loop") => dpc[n] = "sleep" ]_vars

\* C34 (amended): the daemon comes back to the head of its loop only out of
\* a pause: the sleep of the check interval after an iteration that ran to
\* its end, the handler's 60 seconds after one that raised; cmd_check
\* returning false leads to the former, cmd_check raising to the latter
C34_PauseBetweenChecks ==
    [][ \A n \in Nodes :
          /\ (dpc[n] # "loop" /\ dpc'[n] = "loop")
                => dpc[n] \in {"sleep", "recover"}
          /\ (dpc[n] = "check" /\ dpc'[n] \notin {"check", "interrupted"})
                => /\ dpc'[n] = "recover" <=> cmd_check(n) = "raise"
                   /\ dpc'[n] = "sleep" <=> cmd_check(n) = "false" ]_vars

\* the second check of a daemon is about to run after a first one that
\* raised on a node whose migration was due: only the handler's pause lay
\* between them
C34_Witness ==
    \E n \in Nodes :
        /\ dpc[n] = "check" /\ iter[n] = 2
        /\ lifecycle[n].initialized /\ should_migrate(n)
        /\ cmd_check(n) = "raise"
        /\ result[n] = "none"

\* C35: with remote sync available, a cmd_migrate whose registry pull at the
\* start fails ends there with failure: it selects no target from the local
\* cache and goes on to neither the lock nor the data transfer
C35_FailedPullAborts ==
    [][ \A n \in Nodes :
          (/\ pc[n] = "idle" /\ gh[n]
           /\ runs'[n] = runs[n] + 1
           /\ faults' = faults + 1)
                => /\ result'[n] = "failure"
                   /\ mig'[n].target_ip = None
                   /\ pc'[n] \notin {"acq_pull", "transfer"} ]_vars

\* the steps perform_migration has finished so far, and how each ended
StepsRun(n) == [i \in 1..(Len(effects[n]) \div 2) |-> effects[n][2 * i - 1]]
OutcomesRun(n) == [i \in 1..(Len(effects[n]) \div 2) |-> effects[n][2 * i]]
Succeeded(n, step) ==
    \E i \in DOMAIN StepsRun(n) : StepsRun(n)[i] = step /\ OutcomesRun(n)[i] = "ok"
Ran(n, step) == \E i \in DOMAIN StepsRun(n) : StepsRun(n)[i] = step

\* the order of the steps, and the ones whose failure ends the migration
StepOrder ==
    <<"test_ssh_connection", "setup_ssh_key", "backup_critical_files",
      "rsync_system_files", "setup_ssh_key_again", "restore_network_config",
      "tar_stream_transfer">>
HardSteps ==
    {"test_ssh_connection", "setup_ssh_key", "rsync_system_files", "setup_ssh_key_again"}
Position(step) == CHOOSE k \in DOMAIN StepOrder : StepOrder[k] = step

\* C36: perform_migration runs its steps in their order, each at most once;
\* rsync starts only after a successful connectivity test, a successful
\* first key provisioning when a password was given, and the target backup;
\* no step follows a failed connectivity test, key provisioning or rsync;
\* it returns success exactly when the connectivity test, the rsync and,
\* with a password, both key provisionings succeeded, whatever the network
\* restore and the tar-stream transfer did
C36_MigrationStepOrder ==
    \A n \in Nodes :
        frame[n].entry = "perform_migration" =>
            LET password == frame[n].arg.password
                steps == StepsRun(n)
                outcomes == OutcomesRun(n)
            IN /\ \A i, j \in DOMAIN steps :
                    i < j => Position(steps[i]) < Position(steps[j])
               /\ (Ran(n, "rsync_system_files") \/ pc[n] = "rsync_system_files")
                    => /\ Succeeded(n, "test_ssh_connection")
                       /\ password => Succeeded(n, "setup_ssh_key")
                       /\ Ran(n, "backup_critical_files")
               /\ \A i \in DOMAIN steps :
                    (steps[i] \in HardSteps /\ outcomes[i] # "ok")
                        => /\ i = Len(steps)
                           /\ pc[n] = "idle" /\ ~rv[n]
               /\ (pc[n] = "idle" /\ steps # <<>>)
                    => (rv[n] <=>
                          /\ Succeeded(n, "test_ssh_connection")
                          /\ Succeeded(n, "rsync_system_files")
                          /\ password => /\ Succeeded(n, "setup_ssh_key")
                                         /\ Succeeded(n, "setup_ssh_key_again"))

\* a migration with a password has returned success although restoring the
\* network identity and the tar-stream transfer both failed
C36_Witness ==
    \E n \in Nodes :
        /\ frame[n].entry = "perform_migration" /\ frame[n].arg.password
        /\ pc[n] = "idle" /\ rv[n]
        /\ \E i, j \in DOMAIN StepsRun(n) :
            /\ StepsRun(n)[i] = "restore_network_config" /\ OutcomesRun(n)[i] = "failed"
            /\ StepsRun(n)[j] = "tar_stream_transfer" /\ OutcomesRun(n)[j] = "failed"

\* initialize_target_server has been called on n and has returned
Initialized(n) == frame[n].entry = "initialize_target_server" /\ pc[n] = "idle"

\* C37: every initialize_target_server returns; it returns success exactly
\* when the config copy, the remote init, the flag creation, the reboot
\* (sent, or skipped by the debug setting) and the online wait succeeded,
\* whatever the final verification found; the online wait probes only
\* while the time waited is below the startup budget, succeeds with its
\* first successful probe and fails only with the budget used up
C37_InitializeTerminates ==
    /\ \A n \in {"a"} : <>Initialized(n)
    /\ [](\A n \in Nodes :
            Initialized(n) =>
                (rv[n] <=>
                    /\ Succeeded(n, "sync_config_to_target")
                    /\ Succeeded(n, "update_lifecycle_on_target")
                    /\ Succeeded(n, "create_migration_flag")
                    /\ \E i \in DOMAIN StepsRun(n) :
                        /\ StepsRun(n)[i] = "reboot_target_server"
                        /\ OutcomesRun(n)[i] \in {"ok", "skipped"}
                    /\ Succeeded(n, "wait_for_target_online")))
    /\ [][ \A n \in Nodes :
             frame[n].entry = "initialize_target_server" =>
                LET wait == frame[n].arg
                    probe == frame'[n].arg.probes = wait.probes + 1
                    leaves == pc[n] = "wait_for_target_online" /\ pc'[n] # pc[n]
                IN /\ probe => wait.elapsed < wait.startup_wait
                   /\ (leaves /\ probe)
                        => /\ pc'[n] = "verify_services_on_target"
                           /\ Succeeded(n, "wait_for_target_online")'
                   /\ (leaves /\ ~probe)
                        => /\ wait.elapsed >= wait.startup_wait
                           /\ Initialized(n)' /\ ~rv'[n]
                   /\ (pc[n] = "wait_for_target_online" /\ ~leaves /\ probe)
                        => frame'[n].arg.elapsed > wait.elapsed ]_vars

\* an initialization has returned success after two probes, the first of
\* which failed, although the final verification found a service down
C37_Witness ==
    \E n \in Nodes :
        /\ Initialized(n) /\ rv[n]
        /\ frame[n].arg.probes = 2
        /\ \E i \in DOMAIN StepsRun(n) :
            /\ StepsRun(n)[i] = "verify_services_on_target"
            /\ OutcomesRun(n)[i] = "failed"

\* C38: the push of cmd_add_server(ip) and cmd_remove_server(ip) changes
\* nothing in the remote registry but the record of ip: every other record,
\* with the status, lock_holder and lock_time another agent wrote to it, is
\* the same afterwards (no remote call having failed so far)
C38_PushKeepsOtherRecords ==
    [][ \A n \in Nodes :
          (/\ pc[n] = "idle" /\ pc'[n] = "idle"
           /\ frame'[n].entry \in {"add_server", "remove_server"}
           /\ local'[n] # local[n]
           /\ faults' = 0)
                => WithoutIp(remote', frame'[n].server_id)
                     = WithoutIp(remote, frame'[n].server_id) ]_vars

\* C39: when the release_lock of a failed cmd_migrate on n writes its
\* target's record, which was `transferring`, the lock_holder of that record
\* is n: a transfer that another agent holds on the target is never cleared
C39_ReleasesOnlyOwnLock ==
    [][ \A n \in Nodes :
          (/\ pc[n] = "rel_push" /\ pc'[n] # "rel_push"
           /\ frame[n].cont = "m_failed"
           /\ remote' # remote)
                => LET i == FindByIp(remote, mig[n].target_ip)
                   IN (i # 0 /\ remote[i].status = "transferring")
                         => remote[i].lock_holder = n ]_vars

=============================================================================
